---- MODULE Spec2Model ----
(***************************************************************************)
(* Workflow coordination core of genai-brd-functions: the status record    *)
(* store, the two stage functions asset_indexer and content_processor, and *)
(* the hand-off topic between them.                                        *)
(*                                                                         *)
(* Two facts of the source shape the model.                                *)
(*                                                                         *)
(* content_processor calls the firestore_upsert of                         *)
(* src/content_processor/common/firestore_utils.py.  Its line 66 calls     *)
(* sleep(5), a name that module never imports or defines: the call raises  *)
(* NameError after the write and the read-back, line 70 re-raises it, and  *)
(* so every call ends by raising.  content_processor is modelled as far as *)
(* control reaches under that behaviour (lines 200-265 are not reached).   *)
(*                                                                         *)
(* asset_indexer imports firestore_upsert from its own package, whose      *)
(* firestore_utils.py holds no definition (the whole file is commented     *)
(* out).  Its upsert is modelled by the store contract of the              *)
(* specification (create or merge; a store failure propagates), keyed by   *)
(* document.id, the only identity the call passes.                         *)
(***************************************************************************)
EXTENDS Integers, Sequences, FiniteSets, TLC

\* ------------------------------------------------------------------ bounds
NumIngest == 2
NumExtract == 2
MaxInvocations == 3
NumTokens == 2
NumFiles == 2
NumDropped == 1
MaxClock == 1
MaxTopic == 1
NumUpsertFields == 2
MaxAutoIds == 1
NumDeliveries == 2
NumCallers == 2
MaxCalls == 1

TokenSeq == <<"0a1b2c3d4e", "5f6a7b8c9d", "e0f1a2b3c4", "d5e6f7a8b9">>
FileSeq == <<"doc.html", "brd.html", "notes.html">>

\* The values secrets.token_hex(5) can return, and the object names of events.
Tokens == {TokenSeq[i] : i \in 1..NumTokens}
Files == {FileSeq[i] : i \in 1..NumFiles}
IngestIds == 1..NumIngest
ExtractIds == 1..NumExtract

\* --------------------------------------------------------------- constants
\* Python's None, as an identifier value and as a stored null.
None == "None"

\* FunctionStatus
IN_PROGRESS == "in progress"
COMPLETED == "completed"
FAILED == "failed"

\* DocumentType.FUNCTION_EXECUTION_DATA
FUNCTION_EXECUTION_DATA == "function_execution_data"

\* str(exc) of the exceptions a stage can see from firestore_upsert.
NameErrorSleep == "name 'sleep' is not defined"
StoreWriteError == "firestore set failed"

\* str(exc) of what the storage and Pub/Sub clients raise in asset_indexer.
NotFound == "404 no such object"
StorageError == "storage unavailable"
PublishError == "publish failed"

VARIABLES
    store,      \* the status collection: document id -> stored fields
    now,        \* datetime.utcnow(), a logical clock
    emulator,   \* FIRESTORE_EMULATOR_HOST is set
    autoIds,    \* how many ids the store has generated itself
    topic,      \* hand-off topic: messages published and not acknowledged
    src_bucket, \* SOURCE_BUCKET: the names of the objects it holds
    dest_bucket,\* DEST_BUCKET: the objects it holds
    last_upsert,\* the last direct call of firestore_upsert, if any
    ai,         \* asset_indexer invocations
    cp,         \* content_processor invocations
    upserts,    \* calls of firestore_upsert running side by side
    fw,         \* the forwarder's callbacks: one process_message per delivery
    function_endpoint,  \* what FUNCTION_URL answers at the moment
    msg,        \* a PubSubMessage on its way through to_dict and from_dict
    environ     \* os.environ while the asset_indexer module initialises

forwarderVars == <<fw, function_endpoint>>

vars == <<store, now, emulator, autoIds, topic, src_bucket, dest_bucket, last_upsert, ai, cp, upserts, fw, function_endpoint, msg, environ>>

\* ------------------------------------------------------------ identifiers
\* Sentinel ids of content_processor.
error_workflow_id == "error_workflow_id"
error_document_id == "error_document_id"
unknown_workflow_id == "unknown_workflow_id"
unknown_document_id == "unknown_document_id"

\* The id the test publishers put on the hand-off topic.
test_brd_id == "test-brd-id-123"

\* Ids the store generates for document(None) and for auto_id = True.
AutoSeq == <<"auto-1", "auto-2", "auto-3", "auto-4", "auto-5", "auto-6", "auto-7">>

\* "test" in str(x).lower()
ContainsTest(x) == x = test_brd_id

\* x or default
OrDefault(x, default) == IF x = None THEN default ELSE x

\* ------------------------------------------------------------------ store
\* dict.update / a merge of leaf fields: the fields of new win, the others stay.
Merge(old, new) ==
    [f \in (DOMAIN old) \cup (DOMAIN new) |->
        IF f \in DOMAIN new THEN new[f] ELSE old[f]]

\* set(doc_data) without merge=True: the stored document is replaced.
SetMergeOverwrite(old, new) == new

\* DocumentReference.set(doc_data, merge=True): every leaf field path of
\* doc_data is written, every other stored field is kept.  The documents of
\* this program nest their leaves under item.function_data.
SetMerge(old, new) ==
    [f \in (DOMAIN old) \cup (DOMAIN new) |->
        IF f \notin DOMAIN new THEN old[f]
        ELSE IF f = "item" /\ f \in DOMAIN old
             THEN [function_data |->
                       Merge(old.item.function_data, new.item.function_data)]
             ELSE new[f]]

\* A set that writes the status fields into every record of the collection.
StoreSetCollection(st, key, doc_data) ==
    [k \in (DOMAIN st) \cup {key} |->
        IF k \in DOMAIN st THEN SetMerge(st[k], doc_data) ELSE doc_data]

\* What the collection holds under key after set(doc_data, merge=True).
StoreSet(st, key, doc_data) ==
    [k \in (DOMAIN st) \cup {key} |->
        IF k = key
        THEN (IF key \in DOMAIN st THEN SetMerge(st[key], doc_data) ELSE doc_data)
        ELSE st[k]]

\* Document.create_function_execution followed by Document.to_dict.
create_function_execution(id, brd_workflow_id, status, description, description_heading, timestamp, extras) ==
    [id |-> id,
     item_type |-> FUNCTION_EXECUTION_DATA,
     brd_workflow_id |-> brd_workflow_id,
     description |-> description,
     description_heading |-> description_heading,
     item |-> [function_data |->
                  Merge([timestamp_created |-> timestamp,
                         timestamp_updated |-> timestamp,
                         description_heading |-> description_heading,
                         description |-> description,
                         status |-> status],
                        extras)]]

\* get_environment_name()
get_environment_name == IF emulator THEN "emulator" ELSE "production"

\* sleep(5) in firestore_utils: the name is unbound there, the call raises.
sleep == NameErrorSleep

\* firestore_upsert(firestore_client, collection_name, document, auto_id).
\* fault is what the store does to this call: "set" fails the write, "none"
\* lets the write and the read-back through.  The result is the store
\* afterwards, the id of doc_ref, and str(e) of the exception line 70
\* re-raises; no path returns doc_ref.id to the caller.
firestore_upsert(st, nauto, document, auto_id, fault) ==
    LET generated == auto_id \/ document.id = None
        ref_id == IF generated THEN AutoSeq[nauto + 1] ELSE document.id
        doc_data == IF auto_id THEN [document EXCEPT !.id = ref_id] ELSE document
    IN  IF fault = "set"
        THEN [store |-> st, autoIds |-> nauto, id |-> ref_id, exc |-> StoreWriteError]
        ELSE [store |-> StoreSet(st, ref_id, doc_data),
              autoIds |-> IF generated THEN nauto + 1 ELSE nauto,
              id |-> ref_id,
              exc |-> sleep]

StoreFaults == {"none", "set"}

\* firestore_upsert as asset_indexer calls it: the store contract, create
\* the record or merge the fields into it; fault "set" is a store failure,
\* which leaves the store as it was and propagates.
asset_indexer_firestore_upsert(st, document, fault) ==
    IF fault = "set"
    THEN [store |-> st, id |-> document.id, exc |-> StoreWriteError]
    ELSE [store |-> StoreSet(st, document.id, document), id |-> document.id, exc |-> None]


\* ------------------------------------------------------------ hand-off bus
\* The ids a publisher can put into a stage message.

\* json.dumps({"brd_workflow_id": w, "document_id": d}) as asset_indexer and
\* the test publishers build it; a None document_id is a payload without
\* that key.
StageMessage(w, d) == [kind |-> "stage", brd_workflow_id |-> w, document_id |-> d]

\* A payload that is not base64 of a JSON object.
UndecodableMessage == [kind |-> "undecodable", brd_workflow_id |-> None, document_id |-> None]

\* What asset_indexer publishes for the id it drew.
IngestMessages == {StageMessage(w, w) : w \in Tokens}

\* A stage message for a document no object backs.
MissingMessage == StageMessage("missing", "missing")

\* What publishers outside the stages put on the topic: the message of the
\* test publishers, one without document_id, one for a document that does not
\* exist, and an undecodable payload.
TestMessages ==
    {StageMessage(test_brd_id, test_brd_id), StageMessage(test_brd_id, None),
     MissingMessage, UndecodableMessage}

Messages == IngestMessages \cup TestMessages

\* Cloud events that reach the function endpoint without the forwarder: one
\* whose type or data is missing, and one whose data holds no message.
MissingPartsEvent == [kind |-> "missing_parts", brd_workflow_id |-> None, document_id |-> None]
NoMessageEvent == [kind |-> "no_message", brd_workflow_id |-> None, document_id |-> None]
DirectEvents == {MissingPartsEvent, NoMessageEvent}

\* ------------------------------------------------- payloads and CloudEvents
\* A payload that is JSON but not an object.
NumberMessage == [kind |-> "number", brd_workflow_id |-> None, document_id |-> None]

\* dict.get(key)
Get(data, key) == IF key \in DOMAIN data THEN data[key] ELSE None

\* The dict msg of a stage message; a None document_id is a missing key.
MessageDict(m) ==
    IF m.document_id = None
    THEN [type |-> "dict", brd_workflow_id |-> m.brd_workflow_id]
    ELSE [type |-> "dict", brd_workflow_id |-> m.brd_workflow_id,
          document_id |-> m.document_id]

\* json.dumps(value): the JSON text of value.  json.loads(text): the value,
\* or JSONDecodeError for a text that is not JSON.
json_dumps(value) == [json |-> value]
json_loads(text) ==
    IF "json" \in DOMAIN text
    THEN [raised |-> FALSE, value |-> text.json]
    ELSE [raised |-> TRUE, value |-> [type |-> "none"]]

\* str.encode('utf-8') and bytes.decode('utf-8')
encode(text) == [utf8 |-> text]
decode(bytes) == bytes.utf8

\* base64.b64encode(bytes).decode('utf-8') and base64.b64decode(string)
b64encode(bytes) == [b64 |-> bytes]
b64decode(string) == string.b64

\* isinstance(x, dict), isinstance(x, str)
IsDict(x) == "type" \in DOMAIN x /\ x.type = "dict"
IsStr(x) == "raw" \in DOMAIN x \/ "json" \in DOMAIN x

\* The bytes a publisher puts on the topic for payload m.
Payload(m) ==
    IF m.kind = "stage" THEN encode(json_dumps(MessageDict(m)))
    ELSE IF m.kind = "number" THEN encode(json_dumps([type |-> "int", value |-> 5]))
    ELSE encode([raw |-> "not json"])

\* message.message_id, given by the bus to each published message.
MessageId(m) == <<"message", m.kind, m.brd_workflow_id, m.document_id>>

\* process_message lines 150-158: the payload parsed as JSON, or kept as the
\* raw string when it is not JSON.
message_data(m) ==
    LET message_data_raw == decode(Payload(m))
        parsed == json_loads(message_data_raw)
    IN  IF parsed.raised THEN message_data_raw ELSE parsed.value

\* A CloudEvent that carries the payload under another key than data.
create_cloud_event_payload_key(data, message_id) ==
    LET data_json == IF IsDict(data) THEN json_dumps(data) ELSE data
    IN  IF IsStr(data_json)
        THEN [raised |-> FALSE,
              event |-> [type |-> "google.cloud.pubsub.topic.v1.messagePublished",
                         data |-> [message |->
                                      [payload |-> b64encode(encode(data_json)),
                                       messageId |-> message_id]]]]
        ELSE [raised |-> TRUE, event |-> [specversion |-> "1.0"]]

\* create_cloud_event(message_data, message_id): the CloudEvent, or the
\* TypeError of b64encode for a value that is neither a dict nor a string.
create_cloud_event(data, message_id) ==
    LET data_json == IF IsDict(data) THEN json_dumps(data) ELSE data
    IN  IF IsStr(data_json)
        THEN [raised |-> FALSE,
              event |-> [type |-> "google.cloud.pubsub.topic.v1.messagePublished",
                         data |-> [message |->
                                      [data |-> b64encode(encode(data_json)),
                                       messageId |-> message_id]]]]
        ELSE [raised |-> TRUE, event |-> [specversion |-> "1.0"]]

\* PubSubMessage.from_dict(data)
from_dict(data) ==
    [raised |-> FALSE,
     brd_workflow_id |-> Get(data, "brd_workflow_id"),
     document_id |-> Get(data, "document_id")]

\* PubSubMessage.from_cloud_event(event_data): the decoded identifiers, the
\* defaults when the event data holds no message, or the exception that
\* json.loads or from_dict raises.
from_cloud_event(event_data) ==
    IF "message" \in DOMAIN event_data /\ "data" \in DOMAIN event_data.message
    THEN LET data == event_data.message.data
             decoded == IF "b64" \in DOMAIN data
                        THEN json_loads(decode(b64decode(data)))
                        ELSE json_loads(data)
             message_dict == IF decoded.raised THEN json_loads(data) ELSE decoded
         IN  IF message_dict.raised \/ ~IsDict(message_dict.value)
             THEN [raised |-> TRUE, brd_workflow_id |-> None, document_id |-> None]
             ELSE from_dict(message_dict.value)
    ELSE [raised |-> FALSE,
          brd_workflow_id |-> unknown_workflow_id,
          document_id |-> unknown_document_id]

\* PubSubMessage.from_cloud_event of asset_indexer's package: the whole parse
\* is inside a try, an event without message data gives "unknown", and
\* whatever b64decode, json.loads or from_dict raises gives "error".
asset_indexer_from_cloud_event(event_data) ==
    IF "message" \in DOMAIN event_data /\ "data" \in DOMAIN event_data.message
    THEN LET data == event_data.message.data
             decoded == IF "b64" \in DOMAIN data
                        THEN json_loads(decode(b64decode(data)))
                        ELSE [raised |-> TRUE, value |-> [type |-> "none"]]
         IN  IF decoded.raised \/ ~IsDict(decoded.value)
             THEN [raised |-> FALSE, brd_workflow_id |-> "error", document_id |-> None]
             ELSE from_dict(decoded.value)
    ELSE [raised |-> FALSE, brd_workflow_id |-> "unknown", document_id |-> None]

\* The cloud event content_processor is called with for event m: what the
\* forwarder builds for a payload of the topic, or a direct event.
CloudEvent(m) ==
    IF m.kind = "missing_parts" THEN [specversion |-> "1.0"]
    ELSE IF m.kind = "no_message"
    THEN [type |-> "google.cloud.pubsub.topic.v1.messagePublished",
          data |-> [subscription |-> "local-forwarder"]]
    ELSE create_cloud_event(message_data(m), MessageId(m)).event

\* A parse that keeps the mock identifiers of the local-test branch for
\* every event.
ParseEventMock(m) ==
    [brd_workflow_id |-> "mock_brd_id", document_id |-> "mock_document_id",
     is_test |-> TRUE]

\* A parse that substitutes nothing when the event cannot be read.
ParseEventNoSentinel(m) ==
    LET cloud_event == CloudEvent(m)
        readable == "type" \in DOMAIN cloud_event /\ "data" \in DOMAIN cloud_event
        message == IF readable THEN from_cloud_event(cloud_event.data)
                   ELSE [raised |-> TRUE, brd_workflow_id |-> None, document_id |-> None]
    IN  IF message.raised
        THEN [brd_workflow_id |-> None, document_id |-> None, is_test |-> TRUE]
        ELSE [brd_workflow_id |-> message.brd_workflow_id,
              document_id |-> message.document_id,
              is_test |-> ContainsTest(message.brd_workflow_id)
                              \/ ContainsTest(message.document_id)]

\* content_processor's parse of its cloud event, lines 136-181: the
\* identifiers and is_test it goes on with.  An event without type or data
\* raises ValueError at line 164; that and what from_cloud_event raises are
\* caught at line 175.
ParseEvent(m) ==
    LET cloud_event == CloudEvent(m)
        readable == "type" \in DOMAIN cloud_event /\ "data" \in DOMAIN cloud_event
        message == IF readable THEN from_cloud_event(cloud_event.data)
                   ELSE [raised |-> TRUE, brd_workflow_id |-> None, document_id |-> None]
    IN  IF message.raised
        THEN [brd_workflow_id |-> error_workflow_id,
              document_id |-> error_document_id,
              is_test |-> TRUE]
        ELSE [brd_workflow_id |-> message.brd_workflow_id,
              document_id |-> message.document_id,
              is_test |-> ContainsTest(message.brd_workflow_id)
                              \/ ContainsTest(message.document_id)]

\* ------------------------------------------------------------------- Init
\* No direct call of firestore_upsert has been made.
NoUpsert == [called |-> FALSE]

\* No PubSubMessage is being converted.
NoMessage == [pc |-> "idle"]

\* The module initialisation of asset_indexer is not being followed.
NoEnviron == [pc |-> "idle"]

IdleIngest ==
    [pc |-> "idle", brd_id |-> None, src_file_name |-> None, timestamp |-> 0,
     written |-> <<>>, effects |-> <<>>, exc |-> None]

IdleExtract ==
    [pc |-> "idle", message |-> UndecodableMessage, brd_workflow_id |-> None,
     document_id |-> None, is_test |-> FALSE, timestamp |-> 0,
     written |-> <<>>, exc |-> None]

\* What FUNCTION_URL can answer: nothing listens, the request times out, or
\* a response with a status code.
StatusCodes == {200, 204, 500}
ServerDown == [server |-> "down", status_code |-> 0]
ServerSlow == [server |-> "slow", status_code |-> 0]
Endpoints ==
    {ServerDown, ServerSlow} \cup {[server |-> "up", status_code |-> c] : c \in StatusCodes}

DeliveryIds == 1..NumDeliveries
CallerIds == 1..NumCallers

\* A caller that is not inside firestore_upsert.
IdleCall == [pc |-> "idle", calls |-> 0]

IdleDelivery ==
    [pc |-> "idle", message |-> UndecodableMessage, response |-> ServerDown,
     success |-> FALSE, acked |-> FALSE, raised |-> FALSE]

\* The state after deployment, with the objects of files dropped into
\* SOURCE_BUCKET.
InitWith(files) ==
    /\ store = [k \in {} |-> 0]
    /\ now = 0
    /\ emulator \in BOOLEAN
    /\ autoIds = 0
    /\ topic = {}
    /\ src_bucket = files
    /\ dest_bucket = {}
    /\ last_upsert = NoUpsert
    /\ ai = [i \in IngestIds |-> IdleIngest]
    /\ cp = [j \in ExtractIds |-> IdleExtract]
    /\ upserts = [c \in CallerIds |-> IdleCall]
    /\ fw = [d \in DeliveryIds |-> IdleDelivery]
    /\ function_endpoint = ServerDown
    /\ msg = NoMessage
    /\ environ = NoEnviron

Init == InitWith({FileSeq[n] : n \in 1..NumDropped})

\* Every object name of Files has been dropped.
InitFiles == InitWith(Files)

\* datetime.utcnow() advances.
Tick ==
    /\ now < MaxClock
    /\ now' = now + 1
    /\ UNCHANGED <<msg, environ, upserts, forwarderVars, last_upsert, store, emulator, autoIds, topic, src_bucket, dest_bucket, ai, cp>>

\* How many invocations of the two functions have been started.
Started ==
    Cardinality({i \in IngestIds : ai[i].pc # "idle"})
        + Cardinality({j \in ExtractIds : cp[j].pc # "idle"})

\* ---------------------------------------------------------- asset_indexer
\* The ids asset_indexer invocations have drawn so far.
DrawnTokens == {ai[i].brd_id : i \in IngestIds} \ {None}

\* The objects that were dropped into SOURCE_BUCKET: those it holds and
\* those an invocation was started for.  A file-arrival event names one.
Dropped == src_bucket \cup ({ai[i].src_file_name : i \in IngestIds} \ {None})

\* os.path.splitext(src_file_name)[1]; every object name of Files ends so.
Ext(src_file_name) == ".html"

\* dest_file_name = f"{brd_id}{ext}"
dest_file_name(i) == <<ai[i].brd_id, Ext(ai[i].src_file_name)>>

\* src_blob.download_as_bytes(): the bytes of the object dropped as name.
Content(name) == <<"bytes of", name>>

\* The destination object of lines 139-144: the bytes of the source object
\* under dest_file_name, with the source name as metadata.
DestBlob(i) ==
    [name |-> dest_file_name(i), source_file_name |-> ai[i].src_file_name,
     content |-> Content(ai[i].src_file_name)]

\* One status write an invocation issued, and whether the store took it.
Write(id, document, fault) ==
    [id |-> id, status |-> document.item.function_data.status, stored |-> fault # "set"]

\* asset_indexer lines 99-130: the file-arrival event {bucket, name}, the
\* id drawn with secrets.token_hex(5), and the in-progress document.  The
\* draw is a value no other invocation drew; invocations and tokens being
\* interchangeable, they are taken in order.
asset_indexer_begin(i, name, token) ==
    /\ ai[i].pc = "idle"
    /\ name \in Dropped
    /\ \A k \in IngestIds : k < i => ai[k].pc # "idle"
    /\ Started < MaxInvocations
    /\ Cardinality(DrawnTokens) < NumTokens
    /\ token = TokenSeq[Cardinality(DrawnTokens) + 1]
    /\ ai' = [ai EXCEPT ![i] =
                 [pc |-> "inprogress", brd_id |-> token, src_file_name |-> name,
                  timestamp |-> now, written |-> <<>>, effects |-> <<>>,
                  exc |-> None]]
    /\ UNCHANGED <<msg, environ, upserts, forwarderVars, last_upsert, store, now, emulator, autoIds, topic, src_bucket, dest_bucket, cp>>

\* inprogress_document of asset_indexer, lines 123-130.
ai_inprogress_document(i) ==
    create_function_execution(ai[i].brd_id, ai[i].brd_id, IN_PROGRESS,
        <<"Processing BRD document", "">>, "Asset Indexer Function",
        ai[i].timestamp, [environment |-> get_environment_name])

\* completed_document of asset_indexer, lines 150-157.
ai_completed_document(i) ==
    create_function_execution(ai[i].brd_id, ai[i].brd_id, COMPLETED,
        <<"Successfully processed BRD document", "">>, "Asset Indexer Function",
        now, [environment |-> get_environment_name])

\* A failed document that carries the status of the success log.
ai_failed_document_completed(i, exc) ==
    create_function_execution(ai[i].brd_id, ai[i].brd_id, COMPLETED,
        <<"Failed to process BRD document", exc>>, "Asset Indexer Function",
        now,
        [source |-> ai[i].src_file_name, dest |-> dest_file_name(i),
         environment |-> get_environment_name, error |-> exc])

\* failed_document of asset_indexer, lines 174-184, for exception exc.
ai_failed_document(i, exc) ==
    create_function_execution(ai[i].brd_id, ai[i].brd_id, FAILED,
        <<"Failed to process BRD document", exc>>, "Asset Indexer Function",
        now,
        [source |-> ai[i].src_file_name, dest |-> dest_file_name(i),
         environment |-> get_environment_name, error |-> exc])

\* An in-progress upsert whose failure is swallowed: the copy follows anyway.
asset_indexer_inprogress_unchecked(i, fault) ==
    /\ ai[i].pc = "inprogress"
    /\ LET r == asset_indexer_firestore_upsert(store, ai_inprogress_document(i), fault)
       IN  /\ store' = r.store
           /\ ai' = [ai EXCEPT ![i].pc = "copy",
                               ![i].timestamp = 0,
                               ![i].written = Append(@, Write(r.id, ai_inprogress_document(i), fault))]
    /\ UNCHANGED <<msg, environ, upserts, forwarderVars, last_upsert, now, emulator, autoIds, topic, src_bucket, dest_bucket, cp>>

\* asset_indexer line 131: the upsert of the in-progress document.  The
\* call is outside the try of line 135: a store failure leaves asset_indexer
\* at once (pc = "raised"), and nothing after it runs.
asset_indexer_inprogress(i, fault) ==
    /\ ai[i].pc = "inprogress"
    /\ LET r == asset_indexer_firestore_upsert(store, ai_inprogress_document(i), fault)
       IN  /\ store' = r.store
           /\ ai' = [ai EXCEPT ![i].pc = IF r.exc = None THEN "copy" ELSE "raised",
                               ![i].timestamp = 0,
                               ![i].written = Append(@, Write(r.id, ai_inprogress_document(i), fault))]
    /\ UNCHANGED <<msg, environ, upserts, forwarderVars, last_upsert, now, emulator, autoIds, topic, src_bucket, dest_bucket, cp>>

\* A copy whose storage failure is not raised: the delete follows anyway.
asset_indexer_copy_unchecked(i, fault) ==
    /\ ai[i].pc = "copy"
    /\ LET exc == IF ai[i].src_file_name \notin src_bucket THEN NotFound ELSE None
           copied == exc = None /\ ~fault
       IN  /\ dest_bucket' = IF copied THEN dest_bucket \cup {DestBlob(i)} ELSE dest_bucket
           /\ ai' = [ai EXCEPT ![i].pc = IF exc = None THEN "delete" ELSE "handler",
                               ![i].exc = exc,
                               ![i].effects = IF copied THEN Append(@, "copy") ELSE @]
    /\ UNCHANGED <<msg, environ, upserts, forwarderVars, last_upsert, store, now, emulator, autoIds, topic, src_bucket, cp>>

\* asset_indexer lines 136-146: the source object is copied into the
\* destination bucket under dest_file_name, with its source name as
\* metadata.  A missing source object or a storage failure raises into the
\* handler of line 172.
asset_indexer_copy(i, fault) ==
    /\ ai[i].pc = "copy"
    /\ LET exc == IF ai[i].src_file_name \notin src_bucket THEN NotFound
                  ELSE IF fault THEN StorageError ELSE None
       IN  /\ dest_bucket' =
                  IF exc = None
                  THEN dest_bucket \cup {DestBlob(i)}
                  ELSE dest_bucket
           /\ ai' = [ai EXCEPT ![i].pc = IF exc = None THEN "delete" ELSE "handler",
                               ![i].exc = exc,
                               ![i].effects = IF exc = None THEN Append(@, "copy") ELSE @]
    /\ UNCHANGED <<msg, environ, upserts, forwarderVars, last_upsert, store, now, emulator, autoIds, topic, src_bucket, cp>>

\* asset_indexer line 147: src_blob.delete().
asset_indexer_delete(i, fault) ==
    /\ ai[i].pc = "delete"
    /\ LET exc == IF ai[i].src_file_name \notin src_bucket THEN NotFound
                  ELSE IF fault THEN StorageError ELSE None
       IN  /\ src_bucket' = IF exc = None THEN src_bucket \ {ai[i].src_file_name}
                            ELSE src_bucket
           /\ ai' = [ai EXCEPT ![i].pc = IF exc = None THEN "completed" ELSE "handler",
                               ![i].exc = exc,
                               ![i].effects = IF exc = None THEN Append(@, "delete") ELSE @]
    /\ UNCHANGED <<msg, environ, upserts, forwarderVars, last_upsert, store, now, emulator, autoIds, topic, dest_bucket, cp>>

\* A completed upsert whose store failure is swallowed: the invocation goes
\* on to publish.
asset_indexer_completed_swallowed(i, fault) ==
    /\ ai[i].pc = "completed"
    /\ LET r == asset_indexer_firestore_upsert(store, ai_completed_document(i), fault)
       IN  /\ store' = r.store
           /\ ai' = [ai EXCEPT ![i].pc = "publish",
                               ![i].written = Append(@, Write(r.id, ai_completed_document(i), fault))]
    /\ UNCHANGED <<msg, environ, upserts, forwarderVars, last_upsert, now, emulator, autoIds, topic, src_bucket, dest_bucket, cp>>

\* asset_indexer line 158: the upsert of the completed document, inside the
\* try.
asset_indexer_completed(i, fault) ==
    /\ ai[i].pc = "completed"
    /\ LET r == asset_indexer_firestore_upsert(store, ai_completed_document(i), fault)
       IN  /\ store' = r.store
           /\ ai' = [ai EXCEPT ![i].pc = IF r.exc = None THEN "publish" ELSE "handler",
                               ![i].exc = r.exc,
                               ![i].written = Append(@, Write(r.id, ai_completed_document(i), fault))]
    /\ UNCHANGED <<msg, environ, upserts, forwarderVars, last_upsert, now, emulator, autoIds, topic, src_bucket, dest_bucket, cp>>

\* A publish that names the document by the object name of the trigger.
asset_indexer_publish_object_name(i, fault) ==
    /\ ai[i].pc = "publish"
    /\ topic' = IF fault THEN topic
                ELSE topic \cup {StageMessage(ai[i].brd_id, ai[i].src_file_name)}
    /\ ai' = [ai EXCEPT ![i].pc = IF fault THEN "handler" ELSE "returned",
                        ![i].exc = IF fault THEN PublishError ELSE None,
                        ![i].effects = IF fault THEN @ ELSE Append(@, "publish")]
    /\ UNCHANGED <<msg, environ, upserts, forwarderVars, last_upsert, store, now, emulator, autoIds, src_bucket, dest_bucket, cp>>

\* A publish whose failure leaves asset_indexer without passing through the
\* handler of line 172.
asset_indexer_publish_unhandled(i, fault) ==
    /\ ai[i].pc = "publish"
    /\ topic' = IF fault THEN topic
                ELSE topic \cup {StageMessage(ai[i].brd_id, ai[i].brd_id)}
    /\ ai' = [ai EXCEPT ![i].pc = IF fault THEN "raised" ELSE "returned",
                        ![i].exc = None,
                        ![i].effects = IF fault THEN @ ELSE Append(@, "publish")]
    /\ UNCHANGED <<msg, environ, upserts, forwarderVars, last_upsert, store, now, emulator, autoIds, src_bucket, dest_bucket, cp>>

\* A publish whose failure is logged and not raised: the invocation returns.
asset_indexer_publish_unreported(i, fault) ==
    /\ ai[i].pc = "publish"
    /\ topic' = IF fault THEN topic
                ELSE topic \cup {StageMessage(ai[i].brd_id, ai[i].brd_id)}
    /\ ai' = [ai EXCEPT ![i].pc = "returned",
                        ![i].exc = None,
                        ![i].effects = IF fault THEN @ ELSE Append(@, "publish")]
    /\ UNCHANGED <<msg, environ, upserts, forwarderVars, last_upsert, store, now, emulator, autoIds, src_bucket, dest_bucket, cp>>

\* asset_indexer lines 161-170: publish of the hand-off message and wait for
\* its result.  A failed publish is re-raised at line 168 into the handler of
\* line 172; a successful one ends the invocation (pc = "returned").
asset_indexer_publish(i, fault) ==
    /\ ai[i].pc = "publish"
    /\ topic' = IF fault THEN topic
                ELSE topic \cup {StageMessage(ai[i].brd_id, ai[i].brd_id)}
    /\ ai' = [ai EXCEPT ![i].pc = IF fault THEN "handler" ELSE "returned",
                        ![i].exc = IF fault THEN PublishError ELSE None,
                        ![i].effects = IF fault THEN @ ELSE Append(@, "publish")]
    /\ UNCHANGED <<msg, environ, upserts, forwarderVars, last_upsert, store, now, emulator, autoIds, src_bucket, dest_bucket, cp>>

\* A handler that notifies downstream as well.
asset_indexer_failed_publishing(i, fault) ==
    /\ ai[i].pc = "handler"
    /\ LET r == asset_indexer_firestore_upsert(store, ai_failed_document(i, ai[i].exc), fault)
       IN  /\ store' = r.store
           /\ ai' = [ai EXCEPT ![i].pc = "raised",
                               ![i].exc = None,
                               ![i].written = Append(@, Write(r.id, ai_failed_document(i, ai[i].exc), fault))]
    /\ topic' = topic \cup {StageMessage(ai[i].brd_id, ai[i].brd_id)}
    /\ UNCHANGED <<msg, environ, upserts, forwarderVars, last_upsert, now, emulator, autoIds, src_bucket, dest_bucket, cp>>

\* A handler that tries its upsert again when the store refused it.
asset_indexer_failed_retry(i, fault) ==
    /\ ai[i].pc = "handler"
    /\ LET r == asset_indexer_firestore_upsert(store, ai_failed_document(i, ai[i].exc), fault)
       IN  /\ store' = r.store
           /\ ai' = [ai EXCEPT ![i].pc = IF r.exc = None \/ Len(ai[i].written) >= 3
                                         THEN "raised" ELSE "handler",
                               ![i].exc = IF r.exc = None \/ Len(ai[i].written) >= 3
                                          THEN None ELSE @,
                               ![i].written = Append(@, Write(r.id, ai_failed_document(i, ai[i].exc), fault))]
    /\ UNCHANGED <<msg, environ, upserts, forwarderVars, last_upsert, now, emulator, autoIds, topic, src_bucket, dest_bucket, cp>>

\* A handler that records the failure and returns instead of re-raising.
asset_indexer_failed_swallowed(i, fault) ==
    /\ ai[i].pc = "handler"
    /\ LET r == asset_indexer_firestore_upsert(store, ai_failed_document(i, ai[i].exc), fault)
       IN  /\ store' = r.store
           /\ ai' = [ai EXCEPT ![i].pc = IF r.exc = None THEN "returned" ELSE "raised",
                               ![i].exc = None,
                               ![i].written = Append(@, Write(r.id, ai_failed_document(i, ai[i].exc), fault))]
    /\ UNCHANGED <<msg, environ, upserts, forwarderVars, last_upsert, now, emulator, autoIds, topic, src_bucket, dest_bucket, cp>>

\* asset_indexer lines 172-187: the handler upserts the failed document and
\* re-raises; a store failure of that upsert is the exception that leaves
\* instead.  Either way the invocation ends by raising.
asset_indexer_failed(i, fault) ==
    /\ ai[i].pc = "handler"
    /\ LET r == asset_indexer_firestore_upsert(store, ai_failed_document(i, ai[i].exc), fault)
       IN  /\ store' = r.store
           /\ ai' = [ai EXCEPT ![i].pc = "raised",
                               ![i].exc = None,
                               ![i].written = Append(@, Write(r.id, ai_failed_document(i, ai[i].exc), fault))]
    /\ UNCHANGED <<msg, environ, upserts, forwarderVars, last_upsert, now, emulator, autoIds, topic, src_bucket, dest_bucket, cp>>

\* ------------------------------------------------------ content_processor
\* content_processor lines 131-197 for cloud event m: the parse, then the
\* in-progress document.
content_processor_start(j, m) ==
    LET parsed == ParseEvent(m)
    IN  cp' = [cp EXCEPT ![j] =
                  [pc |-> "inprogress", message |-> m,
                   brd_workflow_id |-> parsed.brd_workflow_id,
                   document_id |-> parsed.document_id,
                   is_test |-> parsed.is_test,
                   timestamp |-> now, written |-> <<>>, exc |-> None]]

\* The forwarder's process_message delivers a message of the hand-off topic
\* that no delivery has acknowledged; several deliveries may hold the same one.
content_processor_begin(j, m) ==
    /\ cp[j].pc = "idle"
    /\ \A k \in ExtractIds : k < j => cp[k].pc # "idle"
    /\ Started < MaxInvocations
    /\ m \in topic
    /\ content_processor_start(j, m)
    /\ UNCHANGED <<msg, environ, upserts, forwarderVars, last_upsert, store, now, emulator, autoIds, topic, src_bucket, dest_bucket, ai>>

\* A cloud event posted to the endpoint directly.
content_processor_begin_direct(j, m) ==
    /\ cp[j].pc = "idle"
    /\ \A k \in ExtractIds : k < j => cp[k].pc # "idle"
    /\ Started < MaxInvocations
    /\ m \in DirectEvents
    /\ content_processor_start(j, m)
    /\ UNCHANGED <<msg, environ, upserts, forwarderVars, last_upsert, store, now, emulator, autoIds, topic, src_bucket, dest_bucket, ai>>

\* inprogress_document of content_processor, lines 190-197.
cp_inprogress_document(j) ==
    create_function_execution(cp[j].document_id, cp[j].brd_workflow_id, IN_PROGRESS,
        <<"Processing BRD document content", "">>, "Content Processor Function",
        cp[j].timestamp, [environment |-> get_environment_name])

\* failed_document of content_processor, lines 269-277, for exception exc.
cp_failed_document(j, exc) ==
    create_function_execution(
        OrDefault(cp[j].document_id, unknown_document_id),
        OrDefault(cp[j].brd_workflow_id, unknown_workflow_id),
        FAILED, <<"Failed to process BRD content", exc>>,
        "Content Processor Function", now,
        [environment |-> get_environment_name, error |-> exc])

\* content_processor line 198: firestore_upsert of the in-progress document,
\* inside the try of line 136.  What it raises is caught at line 267, and
\* lines 200-265 are not reached.
content_processor_inprogress(j, fault) ==
    /\ cp[j].pc = "inprogress"
    /\ LET r == firestore_upsert(store, autoIds, cp_inprogress_document(j), FALSE, fault)
       IN  /\ store' = r.store
           /\ autoIds' = r.autoIds
           /\ cp' = [cp EXCEPT ![j].pc = "handler",
                               ![j].exc = r.exc,
                               ![j].timestamp = 0,
                               ![j].written = Append(@, Write(r.id, cp_inprogress_document(j), fault))]
    /\ UNCHANGED <<msg, environ, upserts, forwarderVars, last_upsert, now, emulator, topic, src_bucket, dest_bucket, ai>>

\* content_processor lines 267-280: the handler writes the failed document
\* and re-raises.  firestore_upsert raises inside the handler, so its
\* exception is the one that leaves content_processor; either way the
\* invocation ends by raising and the delivery is not acknowledged.
content_processor_failed(j, fault) ==
    /\ cp[j].pc = "handler"
    /\ LET r == firestore_upsert(store, autoIds, cp_failed_document(j, cp[j].exc), FALSE, fault)
       IN  /\ store' = r.store
           /\ autoIds' = r.autoIds
           /\ cp' = [cp EXCEPT ![j].pc = "raised",
                               ![j].exc = None,
                               ![j].written = Append(@, Write(r.id, cp_failed_document(j, cp[j].exc), fault))]
    /\ UNCHANGED <<msg, environ, upserts, forwarderVars, last_upsert, now, emulator, topic, src_bucket, dest_bucket, ai>>

\* ------------------------------------------------------------- publishers
\* A publisher outside the stages puts a payload on the hand-off topic, as
\* publish_test_message and publish_asset_indexer_message do.
publish_test_message(m) ==
    /\ m \in TestMessages
    /\ m \notin topic
    /\ Cardinality(topic \cap TestMessages) < MaxTopic
    /\ topic' = topic \cup {m}
    /\ UNCHANGED <<msg, environ, upserts, forwarderVars, last_upsert, store, now, emulator, autoIds, src_bucket, dest_bucket, ai, cp>>

\* ------------------------------------------------------------------- Next
Next ==
    \/ \E i \in IngestIds, name \in Files, token \in Tokens :
           asset_indexer_begin(i, name, token)
    \/ \E i \in IngestIds, fault \in StoreFaults : asset_indexer_inprogress(i, fault)
    \/ \E i \in IngestIds, fault \in BOOLEAN : asset_indexer_copy(i, fault)
    \/ \E i \in IngestIds, fault \in BOOLEAN : asset_indexer_delete(i, fault)
    \/ \E i \in IngestIds, fault \in StoreFaults : asset_indexer_completed(i, fault)
    \/ \E i \in IngestIds, fault \in BOOLEAN : asset_indexer_publish(i, fault)
    \/ \E i \in IngestIds, fault \in StoreFaults : asset_indexer_failed(i, fault)
    \/ \E j \in ExtractIds, m \in Messages : content_processor_begin(j, m)
    \/ \E j \in ExtractIds, m \in DirectEvents : content_processor_begin_direct(j, m)
    \/ \E j \in ExtractIds, fault \in StoreFaults : content_processor_inprogress(j, fault)
    \/ \E j \in ExtractIds, fault \in StoreFaults : content_processor_failed(j, fault)
    \/ \E m \in TestMessages : publish_test_message(m)

Spec == Init /\ [][Next]_vars

\* The same functions with every object name of Files dropped.
SpecFiles == InitFiles /\ [][Next]_vars

\* ------------------------------------------------- firestore_upsert, direct
\* The fields and values of the documents handed to firestore_upsert directly.
UpsertFieldSeq == <<"status", "error", "source">>
UpsertFields == {UpsertFieldSeq[n] : n \in 1..NumUpsertFields}
UpsertValues == {IN_PROGRESS, FAILED}
UpsertItems == UNION {[D -> UpsertValues] : D \in SUBSET UpsertFields}

\* Document(id, ...).to_dict() for an item of any fields; id None is a
\* document without an id.
UpsertDocuments ==
    {[id |-> d, item_type |-> FUNCTION_EXECUTION_DATA, brd_workflow_id |-> w,
      description |-> <<"", "">>, description_heading |-> "",
      item |-> [function_data |-> g]] :
        d \in {TokenSeq[1], None}, w \in {TokenSeq[1]}, g \in UpsertItems}

\* firestore_upsert(firestore_client, COLLECTION_NAME, document, auto_id)
\* called on its own.  last_upsert keeps the call, the record the store held
\* under the id before it, and what the call raised.
firestore_upsert_call(document, auto_id, fault) ==
    /\ (auto_id \/ document.id = None) => autoIds < MaxAutoIds
    /\ LET r == firestore_upsert(store, autoIds, document, auto_id, fault)
       IN  /\ store' = r.store
           /\ autoIds' = r.autoIds
           /\ last_upsert' =
                  [called |-> TRUE, id |-> r.id, document |-> document,
                   auto_id |-> auto_id, fault |-> fault,
                   before |-> IF r.id \in DOMAIN store THEN {store[r.id]} ELSE {},
                   exc |-> r.exc]
    /\ UNCHANGED <<msg, environ, upserts, forwarderVars, now, emulator, topic, src_bucket, dest_bucket, ai, cp>>

NextUpsert ==
    \E document \in UpsertDocuments, auto_id \in BOOLEAN, fault \in StoreFaults :
        firestore_upsert_call(document, auto_id, fault)

SpecUpsert == Init /\ [][NextUpsert]_vars

\* --------------------------- the status documents, upsert after upsert
\* The three documents content_processor builds for the delivery of
\* {brd_workflow_id: d, document_id: d}: inprogress_document (lines 190-197),
\* completed_document (lines 244-252) with the processing_results of lines
\* 234-241 (the extracted tables are left out), and failed_document (lines
\* 269-277) for exception exc.
cp_documents(d, exc) ==
    {create_function_execution(d, d, IN_PROGRESS,
         <<"Processing BRD document content", "">>, "Content Processor Function",
         now, [environment |-> get_environment_name]),
     create_function_execution(d, d, COMPLETED,
         <<"Successfully processed BRD content", "">>, "Content Processor Function",
         now,
         [environment |-> get_environment_name,
          processing_results |-> [document_id |-> d, brd_workflow_id |-> d,
                                  timestamp |-> now, title |-> "Unknown Document"]]),
     create_function_execution(d, d, FAILED,
         <<"Failed to process BRD content", exc>>, "Content Processor Function",
         now, [environment |-> get_environment_name, error |-> exc])}

\* The documents of the deliveries for the test id and for a drawn id.
StatusDocuments == cp_documents(test_brd_id, NotFound) \cup cp_documents(TokenSeq[1], NotFound)

\* firestore_upsert applied to the status documents of deliveries and
\* redeliveries for the same ids, one call after the other, while the clock
\* advances.
NextStatus ==
    \/ Tick
    \/ \E document \in StatusDocuments, fault \in StoreFaults :
           firestore_upsert_call(document, FALSE, fault)

SpecStatus == Init /\ [][NextStatus]_vars

\* ------------------------------------------------------- the clock advances
\* The two stages of one pipeline run while datetime.utcnow() moves on between
\* their steps: asset_indexer, and content_processor on what asset_indexer
\* published.
NextClock ==
    \/ Tick
    \/ \E i \in IngestIds, name \in Files, token \in Tokens :
           asset_indexer_begin(i, name, token)
    \/ \E i \in IngestIds, fault \in StoreFaults : asset_indexer_inprogress(i, fault)
    \/ \E i \in IngestIds, fault \in BOOLEAN : asset_indexer_copy(i, fault)
    \/ \E i \in IngestIds, fault \in BOOLEAN : asset_indexer_delete(i, fault)
    \/ \E i \in IngestIds, fault \in StoreFaults : asset_indexer_completed(i, fault)
    \/ \E i \in IngestIds, fault \in BOOLEAN : asset_indexer_publish(i, fault)
    \/ \E i \in IngestIds, fault \in StoreFaults : asset_indexer_failed(i, fault)
    \/ \E j \in ExtractIds, m \in Messages : content_processor_begin(j, m)
    \/ \E j \in ExtractIds, fault \in StoreFaults : content_processor_inprogress(j, fault)
    \/ \E j \in ExtractIds, fault \in StoreFaults : content_processor_failed(j, fault)

SpecClock == Init /\ [][NextClock]_vars

\* ---------------------------------------------------- killed invocations
\* A termination that still records a failure, as a handler of line 172
\* run on the way out would.
asset_indexer_killed_handled(i) ==
    /\ ai[i].pc \in {"copy", "delete", "completed", "handler"}
    /\ Len(ai[i].written) = 1
    /\ LET r == asset_indexer_firestore_upsert(store, ai_failed_document(i, "killed"), "none")
       IN  /\ store' = r.store
           /\ ai' = [ai EXCEPT ![i].pc = "killed", ![i].exc = None]
    /\ UNCHANGED <<msg, environ, upserts, forwarderVars, last_upsert, now, emulator, autoIds, topic, src_bucket, dest_bucket, cp>>

\* asset_indexer between the in-progress upsert of line 131 and the upserts
\* of lines 158 and 185: the instance is terminated and runs no further line.
asset_indexer_killed(i) ==
    /\ ai[i].pc \in {"copy", "delete", "completed", "handler"}
    /\ Len(ai[i].written) = 1
    /\ ai' = [ai EXCEPT ![i].pc = "killed", ![i].exc = None]
    /\ UNCHANGED <<msg, environ, upserts, forwarderVars, last_upsert, store, now, emulator, autoIds, topic, src_bucket, dest_bucket, cp>>

\* content_processor between the write of its in-progress document (line
\* 198) and the upsert of the handler (line 278): the instance is terminated
\* and runs no further line.
content_processor_killed(j) ==
    /\ cp[j].pc = "handler"
    /\ Len(cp[j].written) = 1
    /\ cp[j].written[1].stored
    /\ cp' = [cp EXCEPT ![j].pc = "killed", ![j].exc = None]
    /\ UNCHANGED <<msg, environ, upserts, forwarderVars, last_upsert, store, now, emulator, autoIds, topic, src_bucket, dest_bucket, ai>>

NextKill ==
    \/ Next
    \/ \E i \in IngestIds : asset_indexer_killed(i)
    \/ \E j \in ExtractIds : content_processor_killed(j)

SpecKill == Init /\ [][NextKill]_vars

\* The next statement of asset_indexer invocation i, whatever the
\* environment answers.
asset_indexer_step(i) ==
    \/ \E fault \in StoreFaults : asset_indexer_inprogress(i, fault)
    \/ \E fault \in BOOLEAN : asset_indexer_copy(i, fault)
    \/ \E fault \in BOOLEAN : asset_indexer_delete(i, fault)
    \/ \E fault \in StoreFaults : asset_indexer_completed(i, fault)
    \/ \E fault \in BOOLEAN : asset_indexer_publish(i, fault)
    \/ \E fault \in StoreFaults : asset_indexer_failed(i, fault)

\* The next statement of content_processor invocation j.
content_processor_step(j) ==
    \/ \E fault \in StoreFaults : content_processor_inprogress(j, fault)
    \/ \E fault \in StoreFaults : content_processor_failed(j, fault)

\* One pipeline run: what arrives at content_processor is what asset_indexer
\* published, and the platform may terminate an invocation.
NextRun ==
    \/ \E i \in IngestIds, name \in Files, token \in Tokens :
           asset_indexer_begin(i, name, token)
    \/ \E i \in IngestIds : asset_indexer_step(i)
    \/ \E j \in ExtractIds, m \in Messages : content_processor_begin(j, m)
    \/ \E j \in ExtractIds : content_processor_step(j)
    \/ \E i \in IngestIds : asset_indexer_killed(i)
    \/ \E j \in ExtractIds : content_processor_killed(j)

SpecRun == Init /\ [][NextRun]_vars

\* Both functions are straight-line code: no loop, sleep(10) ends, and every
\* call into the store, the buckets and the topic returns or raises within
\* the deadline of its client.  An invocation the platform has started and
\* not terminated runs its next statement.
SpecRunFair ==
    /\ SpecRun
    /\ \A i \in IngestIds : WF_vars(asset_indexer_step(i))
    /\ \A j \in ExtractIds : WF_vars(content_processor_step(j))

\* ------------------------------------- firestore_upsert, call by call
\* firestore_upsert lines 31-53 for caller c: the reference is taken and
\* doc_ref.set(doc_data, merge=True) is performed.  A store failure (fault)
\* leaves the collection as it was and raises.  The call keeps the record it
\* found (before) and the documents other calls write to the same record
\* until it reads back (between).
firestore_upsert_set(c, document, auto_id, fault) ==
    /\ upserts[c].pc \in {"idle", "raised"}
    /\ upserts[c].calls < MaxCalls
    /\ (auto_id \/ document.id = None) => autoIds < MaxAutoIds
    /\ LET r == firestore_upsert(store, autoIds, document, auto_id, fault)
           doc_data == IF auto_id THEN [document EXCEPT !.id = r.id] ELSE document
           calls == upserts[c].calls + 1
       IN  /\ store' = r.store
           /\ autoIds' = r.autoIds
           /\ upserts' = [o \in CallerIds |->
                  IF o = c
                  THEN IF fault = "set"
                       THEN [pc |-> "raised", calls |-> calls, id |-> r.id, doc_data |-> doc_data,
                             before |-> {}, between |-> {}, read |-> {}, exc |-> r.exc]
                       ELSE [pc |-> "written", calls |-> calls, id |-> r.id, doc_data |-> doc_data,
                             before |-> IF r.id \in DOMAIN store THEN {store[r.id]} ELSE {},
                             between |-> {}, read |-> {}, exc |-> None]
                  ELSE IF upserts[o].pc = "written" /\ upserts[o].id = r.id /\ fault # "set"
                       THEN [upserts[o] EXCEPT !.between = @ \cup {doc_data}]
                       ELSE upserts[o]]
    /\ UNCHANGED <<msg, environ, last_upsert, fw, function_endpoint, now, emulator, topic, src_bucket, dest_bucket, ai, cp>>

\* A read-back that is served the record as it was before the write.
firestore_upsert_get_stale(c) ==
    /\ upserts[c].pc = "written"
    /\ upserts' = [upserts EXCEPT ![c].pc = "raised", ![c].read = upserts[c].before,
                                  ![c].exc = sleep]
    /\ UNCHANGED <<msg, environ, last_upsert, fw, function_endpoint, store, autoIds, now, emulator, topic, src_bucket, dest_bucket, ai, cp>>

\* firestore_upsert lines 55-70 for caller c: doc = doc_ref.get() reads the
\* record back, then sleep(5) raises.
firestore_upsert_get(c) ==
    /\ upserts[c].pc = "written"
    /\ upserts' = [upserts EXCEPT ![c].pc = "raised", ![c].read = {store[upserts[c].id]},
                                  ![c].exc = sleep]
    /\ UNCHANGED <<msg, environ, last_upsert, fw, function_endpoint, store, autoIds, now, emulator, topic, src_bucket, dest_bucket, ai, cp>>

NextReadBack ==
    \/ \E c \in CallerIds, document \in UpsertDocuments, auto_id \in BOOLEAN, fault \in StoreFaults :
           firestore_upsert_set(c, document, auto_id, fault)
    \/ \E c \in CallerIds : firestore_upsert_get(c)

SpecReadBack == Init /\ [][NextReadBack]_vars

\* -------------------------------------------------------------- forwarder
\* The payloads the forwarder is given.
ForwardedMessages == {StageMessage(TokenSeq[1], TokenSeq[1]), UndecodableMessage, NumberMessage}

\* A publisher puts payload m on the topic; the subscription keeps it until
\* it is acknowledged.  Deliveries are told apart by payload, so a payload is
\* not published again while a callback still holds it.
publish(m) ==
    /\ m \in ForwardedMessages
    /\ m \notin topic
    /\ \A d \in DeliveryIds : ~(fw[d].pc \in {"received", "forward"} /\ fw[d].message = m)
    /\ topic' = topic \cup {m}
    /\ UNCHANGED <<msg, environ, upserts, fw, function_endpoint, last_upsert, store, now, emulator, autoIds, src_bucket, dest_bucket, ai, cp>>

\* The function behind FUNCTION_URL starts, stops or answers differently.
endpoint_change(e) ==
    /\ e \in Endpoints
    /\ e # function_endpoint
    /\ function_endpoint' = e
    /\ UNCHANGED <<msg, environ, upserts, fw, topic, last_upsert, store, now, emulator, autoIds, src_bucket, dest_bucket, ai, cp>>

\* A forward_to_function that takes any response of a running server as
\* success.
forward_to_function_any_response(endpoint) == endpoint.server = "up"

\* forward_to_function(cloud_event): True for a 2xx response; False when the
\* server cannot be reached (both health requests raise ConnectionError),
\* when a request times out, and for every other status code.
forward_to_function(endpoint) ==
    IF endpoint.server = "down" THEN FALSE
    ELSE IF endpoint.server = "slow" THEN FALSE
    ELSE endpoint.status_code >= 200 /\ endpoint.status_code < 300

\* subscriber.subscribe(subscription_path, callback=process_message): the
\* subscription hands the unacknowledged payload m to a callback.
deliver(d, m) ==
    /\ m \in topic
    /\ fw[d].pc \in {"idle", "done"}
    /\ fw' = [fw EXCEPT ![d] = [IdleDelivery EXCEPT !.pc = "received", !.message = m]]
    /\ UNCHANGED <<msg, environ, upserts, function_endpoint, topic, last_upsert, store, now, emulator, autoIds, src_bucket, dest_bucket, ai, cp>>

\* process_message lines 144-165: decode the payload, build the CloudEvent,
\* write last_event.json.  What these raise (fault: the file cannot be
\* written) is caught at line 182 and the callback ends without
\* acknowledging.
process_message_begin(d, fault) ==
    /\ fw[d].pc = "received"
    /\ LET m == fw[d].message
           cloud_event == create_cloud_event(message_data(m), MessageId(m))
       IN  fw' = [fw EXCEPT ![d] =
                     IF cloud_event.raised \/ fault
                     THEN [@ EXCEPT !.pc = "done", !.raised = TRUE]
                     ELSE [@ EXCEPT !.pc = "forward"]]
    /\ UNCHANGED <<msg, environ, upserts, function_endpoint, topic, last_upsert, store, now, emulator, autoIds, src_bucket, dest_bucket, ai, cp>>

\* A callback that acknowledges whatever forward_to_function returned.
process_message_forward_always_ack(d) ==
    /\ fw[d].pc = "forward"
    /\ fw' = [fw EXCEPT ![d].pc = "done", ![d].response = function_endpoint,
                        ![d].success = forward_to_function(function_endpoint),
                        ![d].acked = TRUE]
    /\ topic' = topic \ {fw[d].message}
    /\ UNCHANGED <<msg, environ, upserts, function_endpoint, last_upsert, store, now, emulator, autoIds, src_bucket, dest_bucket, ai, cp>>

\* process_message lines 167-180: forward the CloudEvent and acknowledge the
\* message only if forward_to_function returned True.
process_message_forward(d) ==
    /\ fw[d].pc = "forward"
    /\ LET success == forward_to_function(function_endpoint)
       IN  /\ fw' = [fw EXCEPT ![d].pc = "done", ![d].response = function_endpoint,
                               ![d].success = success, ![d].acked = success]
           /\ topic' = IF success THEN topic \ {fw[d].message} ELSE topic
    /\ UNCHANGED <<msg, environ, upserts, function_endpoint, last_upsert, store, now, emulator, autoIds, src_bucket, dest_bucket, ai, cp>>

NextForwarder ==
    \/ \E m \in ForwardedMessages : publish(m)
    \/ \E e \in Endpoints : endpoint_change(e)
    \/ \E d \in DeliveryIds, m \in ForwardedMessages : deliver(d, m)
    \/ \E d \in DeliveryIds, fault \in BOOLEAN : process_message_begin(d, fault)
    \/ \E d \in DeliveryIds : process_message_forward(d)

SpecForwarder == Init /\ [][NextForwarder]_vars

\* The subscription delivers a message again and again until it is
\* acknowledged, the faults of the callback itself are transient, and a
\* callback that was started runs to its end.
SpecForwarderFair ==
    /\ SpecForwarder
    /\ \A m \in ForwardedMessages :
           /\ SF_vars(\E d \in DeliveryIds : deliver(d, m))
           /\ SF_vars(\E d \in DeliveryIds :
                          fw[d].message = m /\ process_message_begin(d, FALSE))
    /\ \A d \in DeliveryIds : WF_vars(process_message_begin(d, TRUE) \/ process_message_begin(d, FALSE))
    /\ \A d \in DeliveryIds : WF_vars(process_message_forward(d))

\* ------------------------------------- PubSubMessage, to_dict and from_dict
\* The values a caller passes as data: None, {} and a dict with a field.
NoData == [type |-> "none"]
EmptyDict == [type |-> "dict"]
SomeData == [type |-> "dict", title |-> "BRD"]
MessageData == {NoData, EmptyDict, SomeData}

\* The values a caller passes as an identifier: a drawn id, "" and None.
MessageIds == {TokenSeq[1], "", None}

Packages == {"asset_indexer", "content_processor"}

\* bool(x) of an identifier and of a data value.
TruthyId(x) == x # None /\ x # ""
TruthyData(x) == x # NoData /\ x # EmptyDict

\* d[k] = v
With(d, k, v) == [x \in (DOMAIN d) \cup {k} |-> IF x = k THEN v ELSE d[x]]

\* PubSubMessage.__init__ of both packages: self.data = data or {}.
\* content_processor's also stamps self.timestamp, which no conversion reads back.
PubSubMessage_init(brd_workflow_id, document_id, data, processing_complete) ==
    [brd_workflow_id |-> brd_workflow_id, document_id |-> document_id,
     data |-> IF TruthyData(data) THEN data ELSE EmptyDict,
     processing_complete |-> processing_complete]

\* A to_dict of content_processor that leaves the data out.
content_processor_to_dict_without_data(m) ==
    [brd_workflow_id |-> m.brd_workflow_id, document_id |-> m.document_id,
     timestamp |-> now, processing_complete |-> m.processing_complete]

\* PubSubMessage.to_dict of content_processor/common/base.py, lines 38-51.
content_processor_to_dict(m) ==
    LET message == [brd_workflow_id |-> m.brd_workflow_id,
                    document_id |-> m.document_id,
                    timestamp |-> now,
                    processing_complete |-> m.processing_complete]
    IN  IF TruthyData(m.data) THEN With(message, "data", m.data) ELSE message

\* PubSubMessage.to_dict of asset_indexer/common/base.py, lines 37-50.
asset_indexer_to_dict(m) ==
    LET message == [brd_workflow_id |-> m.brd_workflow_id, data |-> m.data]
        with_id == IF TruthyId(m.document_id)
                   THEN With(message, "document_id", m.document_id)
                   ELSE message
    IN  IF m.processing_complete
        THEN With(with_id, "processing_complete", TRUE)
        ELSE with_id

\* PubSubMessage.from_dict of both packages: every field read with data.get.
PubSubMessage_from_dict(d) ==
    PubSubMessage_init(
        Get(d, "brd_workflow_id"),
        Get(d, "document_id"),
        IF "data" \in DOMAIN d THEN d.data ELSE NoData,
        IF "processing_complete" \in DOMAIN d THEN d.processing_complete ELSE FALSE)

\* A message of one of the packages is constructed.
message_construct(package, brd_workflow_id, document_id, data, processing_complete) ==
    /\ msg.pc = "idle"
    /\ msg' = [pc |-> "constructed", package |-> package,
               message |-> PubSubMessage_init(brd_workflow_id, document_id, data,
                                              processing_complete)]
    /\ UNCHANGED <<environ, store, now, emulator, autoIds, topic, src_bucket, dest_bucket, last_upsert, ai, cp, upserts, fw, function_endpoint>>

\* message.to_dict()
message_to_dict ==
    /\ msg.pc = "constructed"
    /\ msg' = [pc |-> "dict", package |-> msg.package, message |-> msg.message,
               dict |-> IF msg.package = "asset_indexer"
                        THEN asset_indexer_to_dict(msg.message)
                        ELSE content_processor_to_dict(msg.message)]
    /\ UNCHANGED <<environ, store, now, emulator, autoIds, topic, src_bucket, dest_bucket, last_upsert, ai, cp, upserts, fw, function_endpoint>>

\* PubSubMessage.from_dict(message.to_dict())
message_from_dict ==
    /\ msg.pc = "dict"
    /\ msg' = [pc |-> "parsed", package |-> msg.package, message |-> msg.message,
               dict |-> msg.dict, result |-> PubSubMessage_from_dict(msg.dict)]
    /\ UNCHANGED <<environ, store, now, emulator, autoIds, topic, src_bucket, dest_bucket, last_upsert, ai, cp, upserts, fw, function_endpoint>>

NextMessage ==
    \/ \E package \in Packages, w \in MessageIds, d \in MessageIds, data \in MessageData, processing_complete \in BOOLEAN :
           message_construct(package, w, d, data, processing_complete)
    \/ message_to_dict
    \/ message_from_dict

SpecMessage == Init /\ [][NextMessage]_vars

\* ------------------------------- module initialisation of asset_indexer
\* The environment variables the initialisation reads.
GcpIndicators == {"K_SERVICE", "FUNCTION_NAME", "FUNCTION_TARGET", "FUNCTION_SIGNATURE_TYPE"}
EmulatorHosts == {"FIRESTORE_EMULATOR_HOST", "FIREBASE_STORAGE_EMULATOR_HOST"}

\* A variable that is not in os.environ.
Unset == "<unset>"

\* What the process can be started with, after load_dotenv(): an emulator
\* host or K_SERVICE is unset, empty or has a value, the other indicators
\* are unset or have a value.
Environments ==
    {e \in [GcpIndicators \cup EmulatorHosts -> {Unset, "", "value"}] :
        \A v \in GcpIndicators \ {"K_SERVICE"} : e[v] # ""}

\* os.getenv(var) is truthy
Truthy(env, var) == env[var] # Unset /\ env[var] # ""

\* running_in_gcp(), asset_indexer/main.py lines 30-56.
running_in_gcp(env) ==
    IF \E h \in EmulatorHosts : Truthy(env, h)
    THEN FALSE
    ELSE \E v \in GcpIndicators : env[v] # Unset

\* The default host and port of each emulator.
DefaultHost(h) == IF h = "FIRESTORE_EMULATOR_HOST" THEN "127.0.0.1:8090" ELSE "127.0.0.1:9199"

\* os.environ after every host that is not there got its default.
WithDefaultHosts(env) ==
    [v \in DOMAIN env |->
        IF v \in EmulatorHosts /\ env[v] = Unset THEN DefaultHost(v) ELSE env[v]]

\* The module is imported in a process started with environment env.
module_import(env) ==
    /\ environ.pc = "idle"
    /\ environ' = [pc |-> "imported", initial |-> env, environ |-> env,
                   environment |-> None]
    /\ UNCHANGED <<msg, store, now, emulator, autoIds, topic, src_bucket, dest_bucket, last_upsert, ai, cp, upserts, fw, function_endpoint>>

\* Lines 74-79: outside GCP each emulator host that is None gets its default.
set_emulator_hosts ==
    /\ environ.pc = "imported"
    /\ environ' = [environ EXCEPT
                      !.pc = "hosts set",
                      !.environ = IF ~running_in_gcp(environ.environ)
                                  THEN WithDefaultHosts(@) ELSE @]
    /\ UNCHANGED <<msg, store, now, emulator, autoIds, topic, src_bucket, dest_bucket, last_upsert, ai, cp, upserts, fw, function_endpoint>>

\* Lines 81-92 (setup_emulator_environment of common/environment.py): when
\* K_SERVICE is not truthy, each emulator host not in os.environ gets its
\* default.
force_emulator_settings ==
    /\ environ.pc = "hosts set"
    /\ environ' = [environ EXCEPT
                      !.pc = "initialised",
                      !.environ = IF ~Truthy(environ.environ, "K_SERVICE")
                                  THEN WithDefaultHosts(@) ELSE @]
    /\ UNCHANGED <<msg, store, now, emulator, autoIds, topic, src_bucket, dest_bucket, last_upsert, ai, cp, upserts, fw, function_endpoint>>

\* Lines 119-130 of an invocation: the environment its status records report.
record_environment ==
    /\ environ.pc = "initialised"
    /\ environ' = [environ EXCEPT
                      !.pc = "invoked",
                      !.environment = IF Truthy(environ.environ, "FIRESTORE_EMULATOR_HOST")
                                      THEN "emulator" ELSE "production"]
    /\ UNCHANGED <<msg, store, now, emulator, autoIds, topic, src_bucket, dest_bucket, last_upsert, ai, cp, upserts, fw, function_endpoint>>

NextEnviron ==
    \/ \E env \in Environments : module_import(env)
    \/ set_emulator_hosts
    \/ force_emulator_settings
    \/ record_environment

SpecEnviron == Init /\ [][NextEnviron]_vars

\* ----------------------------------------------------------------- claims
\* The status a record of the collection holds.
RecordStatus(k) == store[k].item.function_data.status

\* The invocation has ended, by returning or by raising.
IngestEnded(i) == ai[i].pc \in {"returned", "raised"}
ExtractEnded(j) == cp[j].pc = "raised"

\* The statuses of the writes in history w, in the order they were issued.
Statuses(w) == {w[n].status : n \in 1..Len(w)}
AllStored(w) == \A n \in 1..Len(w) : w[n].stored

\* C1: write-before-effect.  An asset_indexer invocation that has reached
\* the copy, or has performed any of copy, delete and publish, has as its
\* first write an IN_PROGRESS write the store took, and the store holds its
\* record.  (content_processor performs no side effect in this model.)
WriteBeforeEffect ==
    \A i \in IngestIds :
        (ai[i].pc \in {"copy", "delete", "completed", "publish", "returned"}
            \/ ai[i].effects # <<>>)
        => /\ Len(ai[i].written) >= 1
           /\ ai[i].written[1] = [id |-> ai[i].brd_id, status |-> IN_PROGRESS, stored |-> TRUE]
           /\ ai[i].brd_id \in DOMAIN store

WriteBeforeEffectWitness ==
    \E i \in IngestIds :
        /\ ai[i].effects # <<>>
        /\ ai[i].effects[1] = "copy"
        /\ ai[i].brd_id \in DOMAIN store

\* The copy or the delete of asset_indexer raised: the invocation is in or
\* past its handler, its in-progress write was taken, and it did not get
\* past the delete.
BusinessLogicRaised(i) ==
    /\ ai[i].pc \in {"handler", "raised"}
    /\ Len(ai[i].written) >= 1
    /\ ai[i].written[1].stored
    /\ "delete" \notin {ai[i].effects[n] : n \in 1..Len(ai[i].effects)}

TerminalIsLast(w) ==
    \A a, b \in 1..Len(w) :
        (a < b /\ w[a].stored /\ w[a].status \in {COMPLETED, FAILED})
        => w[b].status = w[a].status

\* C3: status is monotonic within one invocation.  The writes of an
\* invocation are IN_PROGRESS first and then at most one of COMPLETED and
\* FAILED; after a COMPLETED or FAILED write it issues no further write.
StatusMonotonic ==
    /\ \A i \in IngestIds :
           /\ TerminalIsLast(ai[i].written)
           /\ Len(ai[i].written) >= 1 => ai[i].written[1].status = IN_PROGRESS
    /\ \A j \in ExtractIds :
           /\ TerminalIsLast(cp[j].written)
           /\ Len(cp[j].written) >= 1 => cp[j].written[1].status = IN_PROGRESS

\* C4: one record per (workflow id, stage name).  When asset_indexer and
\* content_processor have both written for the same workflow, the writes the
\* store took from the one and from the other went to two distinct records.
OneRecordPerStage ==
    \A i \in IngestIds, j \in ExtractIds :
        cp[j].brd_workflow_id = ai[i].brd_id /\ ai[i].brd_id # None
        => \A a \in 1..Len(ai[i].written), b \in 1..Len(cp[j].written) :
               (ai[i].written[a].stored /\ cp[j].written[b].stored)
               => ai[i].written[a].id # cp[j].written[b].id

\* C5: merge, not overwrite.  After a call of firestore_upsert whose write
\* the store took, the record holds every field of the document with the
\* document's value, and every field the record held before that the document
\* does not name, with the value it had: the record's fields are the union.
\* After a call whose write failed the record is as it was.
MergeNotOverwrite ==
    last_upsert.called
    => LET k == last_upsert.id
           new == last_upsert.document.item.function_data
       IN  IF last_upsert.fault = "set"
           THEN \A b \in last_upsert.before : store[k] = b
           ELSE /\ k \in DOMAIN store
                /\ \A f \in DOMAIN new : store[k].item.function_data[f] = new[f]
                /\ \A f \in DOMAIN last_upsert.document \ {"id", "item"} :
                       store[k][f] = last_upsert.document[f]
                /\ \A b \in last_upsert.before :
                       /\ DOMAIN store[k].item.function_data
                              = (DOMAIN b.item.function_data) \cup (DOMAIN new)
                       /\ \A f \in (DOMAIN b.item.function_data) \ (DOMAIN new) :
                              store[k].item.function_data[f] = b.item.function_data[f]
                /\ last_upsert.before = {} => DOMAIN store[k].item.function_data = DOMAIN new

MergeNotOverwriteWitness ==
    /\ last_upsert.called
    /\ last_upsert.fault = "none"
    /\ \E b \in last_upsert.before :
           LET old == DOMAIN b.item.function_data
               new == DOMAIN last_upsert.document.item.function_data
           IN  /\ old # {}
               /\ new # {}
               /\ old \cap new = {}
               /\ DOMAIN store[last_upsert.id].item.function_data = old \cup new

\* An asset_indexer invocation has published the hand-off message of w.
IngestPublished(w) ==
    \E i \in IngestIds :
        /\ ai[i].brd_id = w
        /\ ai[i].pc = "returned"
        /\ ai[i].effects = <<"copy", "delete", "publish">>
        /\ ai[i].written[Len(ai[i].written)] = [id |-> w, status |-> COMPLETED, stored |-> TRUE]

\* The invocation was started by a delivery from the hand-off topic.
FromTopic(j) == cp[j].pc # "idle" /\ cp[j].message.kind \in {"stage", "undecodable"}

\* C6 as the specification states it: content_processor starts work for a
\* workflow only after asset_indexer has published that workflow's message.
ExtractionOnlyAfterIngest ==
    \A j \in ExtractIds :
        (FromTopic(j) /\ cp[j].message.kind = "stage")
        => IngestPublished(cp[j].message.brd_workflow_id)

\* C6: the transition rule of the code.  content_processor starts work on a
\* delivery only for a message that is on the hand-off topic; for a workflow
\* id drawn by asset_indexer that is only after asset_indexer has stored
\* COMPLETED and published its message, and for any other id the message was
\* put there by another publisher.  An asset_indexer invocation that ended by
\* raising has published nothing, and no content_processor invocation works
\* on its id.
TransitionRule ==
    /\ \A j \in ExtractIds :
           FromTopic(j)
           => /\ cp[j].message \in topic
              /\ cp[j].message \in IngestMessages
                   => IngestPublished(cp[j].message.brd_workflow_id)
              /\ cp[j].message \notin IngestMessages => cp[j].message \in TestMessages
    /\ \A i \in IngestIds :
           ai[i].pc = "raised"
           => /\ StageMessage(ai[i].brd_id, ai[i].brd_id) \notin topic
              /\ \A j \in ExtractIds : cp[j].brd_workflow_id # ai[i].brd_id

TransitionRuleWitness ==
    /\ \E j \in ExtractIds :
           /\ FromTopic(j)
           /\ cp[j].message \in IngestMessages
           /\ IngestPublished(cp[j].message.brd_workflow_id)
    /\ \E i \in IngestIds : ai[i].pc = "raised" /\ Len(ai[i].written) = 2

SentinelIds(m) ==
    IF m.kind = "no_message"
    THEN [brd_workflow_id |-> unknown_workflow_id, document_id |-> unknown_document_id]
    ELSE [brd_workflow_id |-> error_workflow_id, document_id |-> error_document_id]

Malformed(m) == m.kind \in {"missing_parts", "undecodable", "no_message"}

NoTransientFailure(i) ==
    /\ AllStored(ai[i].written)
    /\ RecordStatus(ai[i].brd_id) = FAILED
         => store[ai[i].brd_id].item.function_data.error = NotFound

\* C9: stage idempotence.  Two asset_indexer invocations for the same
\* file-arrival event that both ended, with no transient failure in either,
\* end with the same status, and the source object has been copied once.
StageIdempotent ==
    \A i1, i2 \in IngestIds :
        (i1 # i2 /\ IngestEnded(i1) /\ IngestEnded(i2)
            /\ ai[i1].src_file_name = ai[i2].src_file_name
            /\ NoTransientFailure(i1) /\ NoTransientFailure(i2))
        => /\ RecordStatus(ai[i1].brd_id) = RecordStatus(ai[i2].brd_id)
           /\ Cardinality({o \in dest_bucket :
                               o.source_file_name = ai[i1].src_file_name}) <= 1

\* C10: duplicate delivery.  When two content_processor invocations for the
\* same message published by asset_indexer have both ended, and the store
\* took every write, the one record of the message's document_id holds
\* status COMPLETED.
DuplicateDeliveryCompleted ==
    \A j1, j2 \in ExtractIds :
        (j1 # j2 /\ ExtractEnded(j1) /\ ExtractEnded(j2)
            /\ cp[j1].message = cp[j2].message
            /\ cp[j1].message \in IngestMessages
            /\ AllStored(cp[j1].written) /\ AllStored(cp[j2].written))
        => /\ cp[j1].message.document_id \in DOMAIN store
           /\ RecordStatus(cp[j1].message.document_id) = COMPLETED

\* The response the forwarder got is a 2xx response.
Is2xx(endpoint) ==
    endpoint.server = "up" /\ endpoint.status_code >= 200 /\ endpoint.status_code < 300

\* C11: the forwarder acknowledges a delivery if and only if the POST to the
\* function returned a 2xx status.  A callback that ends after a 2xx
\* response has acknowledged its message, which leaves the subscription; a
\* callback that ends after any other status, a connection error, a timeout
\* or an exception of its own has not acknowledged, and its message stays
\* where it was.
AckIff2xx ==
    [][\A d \in DeliveryIds :
          (fw'[d] # fw[d] /\ fw'[d].pc = "done") =>
              LET m == fw'[d].message
                  ok == fw[d].pc = "forward" /\ Is2xx(function_endpoint)
              IN  /\ fw'[d].acked <=> ok
                  /\ ok => m \notin topic'
                  /\ ~ok => (m \in topic <=> m \in topic')]_vars

\* One callback ended acknowledged after a 2xx response, another ended
\* unacknowledged after a 500 whose message is still on the subscription.
AckIff2xxWitness ==
    \E d1, d2 \in DeliveryIds :
        /\ fw[d1].pc = "done" /\ fw[d1].acked /\ Is2xx(fw[d1].response)
        /\ fw[d2].pc = "done" /\ ~fw[d2].acked /\ ~fw[d2].raised
        /\ fw[d2].response.status_code = 500
        /\ fw[d2].message \in topic

\* The payloads the forwarder can turn into a CloudEvent.
Forwardable(m) == ~create_cloud_event(message_data(m), MessageId(m)).raised

\* C12: delivery is at least once and redelivery is unbounded.  A message
\* leaves the subscription only by the acknowledgement of a callback that got
\* a 2xx response (it is never dropped or dead-lettered); a message that
\* stays unacknowledged is handed to the callback again and again; and once
\* the function answers 2xx for good, every message the forwarder can turn
\* into a CloudEvent is eventually acknowledged.
AtLeastOnceDelivery ==
    /\ [][\A m \in topic :
             m \notin topic' =>
                 \E d \in DeliveryIds :
                     /\ fw[d].pc = "forward" /\ fw[d].message = m
                     /\ fw'[d].acked /\ Is2xx(function_endpoint)]_vars
    /\ \A m \in ForwardedMessages :
           <>[](m \in topic) => []<>(\E d \in DeliveryIds :
                                        fw[d].pc = "received" /\ fw[d].message = m)
    /\ \A m \in ForwardedMessages :
           (Forwardable(m) /\ <>[]Is2xx(function_endpoint))
               => ((m \in topic) ~> (m \notin topic))

\* A message was delivered, not acknowledged because the function answered
\* 500, is still on the subscription and is in the hands of a callback again.
AtLeastOnceDeliveryWitness ==
    \E d1, d2 \in DeliveryIds :
        /\ d1 # d2
        /\ fw[d1].pc = "done" /\ ~fw[d1].acked /\ fw[d1].response.status_code = 500
        /\ fw[d2].pc = "received" /\ fw[d2].message = fw[d1].message
        /\ fw[d1].message \in topic

\* What the consumer decodes from the CloudEvent the forwarder builds for
\* the published payload m.
RoundTrip(m) ==
    LET cloud_event == create_cloud_event(message_data(m), MessageId(m))
    IN  IF cloud_event.raised
        THEN [raised |-> TRUE, brd_workflow_id |-> None, document_id |-> None]
        ELSE from_cloud_event(cloud_event.event.data)

\* A valid stage message: both identifiers are present.
ValidStageMessage(m) ==
    m.kind = "stage" /\ m.brd_workflow_id # None /\ m.document_id # None

\* C15: round trip of the hand-off.  For every valid stage message on the
\* topic, wrapping its payload as a base64 CloudEvent (create_cloud_event)
\* and decoding it on the consumer side (PubSubMessage.from_cloud_event)
\* raises nothing and yields the brd_workflow_id and the document_id that were
\* published.
RoundTripIdentity ==
    \A m \in topic :
        ValidStageMessage(m)
        => /\ ~RoundTrip(m).raised
           /\ RoundTrip(m).brd_workflow_id = m.brd_workflow_id
           /\ RoundTrip(m).document_id = m.document_id

\* The topic holds the message of an ingest and a test message with both
\* identifiers, and a content_processor invocation has decoded one of them.
RoundTripIdentityWitness ==
    /\ \E m \in topic \cap IngestMessages : ValidStageMessage(m)
    /\ \E m \in topic \cap TestMessages : ValidStageMessage(m)
    /\ \E j \in ExtractIds :
           /\ FromTopic(j) /\ ValidStageMessage(cp[j].message)
           /\ cp[j].message \in topic
           /\ cp[j].brd_workflow_id = RoundTrip(cp[j].message).brd_workflow_id

\* The effects an asset_indexer invocation has had.
Effects(i) == {ai[i].effects[n] : n \in 1..Len(ai[i].effects)}

\* C13: a store failure during a status upsert propagates to the stage and is
\* not swallowed.  An asset_indexer invocation whose IN_PROGRESS write failed
\* has ended by raising with no copy, delete, later write or publish; one
\* whose COMPLETED write failed is in its handler with the store's exception,
\* or has ended by raising, and has published nothing.  A content_processor
\* invocation whose IN_PROGRESS write failed is in its handler with the
\* store's exception or has ended by raising.
StoreFailurePropagates ==
    /\ \A i \in IngestIds :
           LET w == ai[i].written
           IN  /\ (Len(w) >= 1 /\ ~w[1].stored)
                    => /\ ai[i].pc = "raised"
                       /\ Len(w) = 1
                       /\ ai[i].effects = <<>>
                       /\ StageMessage(ai[i].brd_id, ai[i].brd_id) \notin topic
               /\ \A n \in 1..Len(w) :
                      (w[n].status = COMPLETED /\ ~w[n].stored)
                      => /\ ai[i].pc \in {"handler", "raised"}
                         /\ ai[i].pc = "handler" => ai[i].exc = StoreWriteError
                         /\ "publish" \notin Effects(i)
                         /\ StageMessage(ai[i].brd_id, ai[i].brd_id) \notin topic
    /\ \A j \in ExtractIds :
           (Len(cp[j].written) >= 1 /\ ~cp[j].written[1].stored)
           => /\ cp[j].pc \in {"handler", "raised"}
              /\ cp[j].pc = "handler" => cp[j].exc = StoreWriteError
              /\ cp[j].written[1].status = IN_PROGRESS

\* One asset_indexer invocation ended by raising after its IN_PROGRESS write
\* failed, another after its COMPLETED write failed with copy and delete
\* done, and a content_processor invocation after its IN_PROGRESS write
\* failed.
StoreFailurePropagatesWitness ==
    /\ \E i \in IngestIds :
           ai[i].pc = "raised" /\ Len(ai[i].written) = 1 /\ ~ai[i].written[1].stored
    /\ \E i \in IngestIds :
           /\ ai[i].pc = "raised" /\ Len(ai[i].written) = 3
           /\ ai[i].written[2].status = COMPLETED /\ ~ai[i].written[2].stored
           /\ "delete" \in Effects(i)
    /\ \E j \in ExtractIds :
           cp[j].pc = "raised" /\ ~cp[j].written[1].stored

\* str(e) of the exception content_processor's parse raises for event m at
\* lines 164 and 166, None when it raises nothing.
ParseException(m) ==
    IF m.kind = "missing_parts" THEN "CloudEvent structure is missing critical parts"
    ELSE IF m.kind = "undecodable" THEN "JSONDecodeError"
    ELSE None

\* C14 as the specification states it: record-then-propagate.  Every
\* invocation that ended by raising issued a FAILED write as its last write,
\* and the record of a content_processor invocation whose parse raised, when
\* no other invocation wrote to it, holds the text of that exception.
RecordThenPropagate ==
    /\ \A i \in IngestIds :
           ai[i].pc = "raised"
           => ai[i].written[Len(ai[i].written)].status = FAILED
    /\ \A j \in ExtractIds :
           (ExtractEnded(j) /\ ParseException(cp[j].message) # None
                /\ AllStored(cp[j].written)
                /\ \A k \in ExtractIds : k # j => cp[k].pc = "idle")
           => /\ RecordStatus(cp[j].document_id) = FAILED
              /\ store[cp[j].document_id].item.function_data.error
                     = ParseException(cp[j].message)

\* C16: successful ingest.  When an asset_indexer invocation returns, the id
\* w it works with is one it drew itself, which no other invocation holds;
\* it has copied and deleted the source object and published once; the store
\* took its two writes, IN_PROGRESS then COMPLETED; the record of w is
\* COMPLETED; and the step put exactly one message on the topic, whose
\* brd_workflow_id and document_id are both w.
SuccessfulIngest ==
    [][\A i \in IngestIds :
          (ai[i].pc = "publish" /\ ai'[i].pc = "returned")
          => LET w == ai'[i].brd_id
             IN  /\ w \in Tokens
                 /\ w # ai'[i].src_file_name
                 /\ \A k \in IngestIds : k # i => ai'[k].brd_id # w
                 /\ ai'[i].effects = <<"copy", "delete", "publish">>
                 /\ ai'[i].written =
                        <<[id |-> w, status |-> IN_PROGRESS, stored |-> TRUE],
                          [id |-> w, status |-> COMPLETED, stored |-> TRUE]>>
                 /\ w \in DOMAIN store'
                 /\ store'[w].item.function_data.status = COMPLETED
                 /\ store'[w].brd_workflow_id = w
                 /\ StageMessage(w, w) \notin topic
                 /\ topic' = topic \cup {StageMessage(w, w)}]_vars

\* An invocation has returned: the source object is gone, its copy is in the
\* destination bucket under the drawn id, the record is COMPLETED and the
\* message is on the topic.
SuccessfulIngestWitness ==
    \E i \in IngestIds :
        /\ ai[i].pc = "returned"
        /\ ai[i].src_file_name \notin src_bucket
        /\ DestBlob(i) \in dest_bucket
        /\ RecordStatus(ai[i].brd_id) = COMPLETED
        /\ StageMessage(ai[i].brd_id, ai[i].brd_id) \in topic

\* C17 as the specification states it: the missing object.  A
\* content_processor invocation for a message with document_id "missing",
\* which no object of the processed bucket backs, ends with the record of
\* that document FAILED with the not-found error of the download as its
\* error, and publishes nothing.
MissingObjectFails ==
    \A j \in ExtractIds :
        (ExtractEnded(j) /\ cp[j].message = MissingMessage /\ AllStored(cp[j].written))
        => /\ \A o \in dest_bucket : o.name[1] # "missing"
           /\ "missing" \in DOMAIN store
           /\ RecordStatus("missing") = FAILED
           /\ store["missing"].item.function_data.error = NotFound
           /\ store["missing"].description[2] = NotFound
           /\ topic \subseteq IngestMessages \cup TestMessages

\* The invocations of both stages and the writes each has issued.
Invocations == ({"ai"} \X IngestIds) \cup ({"cp"} \X ExtractIds)
History(x) == IF x[1] = "ai" THEN ai[x[2]].written ELSE cp[x[2]].written

\* The writes of history w to key k, and the invocations that wrote to k.
WritesTo(w, k) == {n \in 1..Len(w) : w[n].id = k}
Writers(k) == {x \in Invocations : WritesTo(History(x), k) # {}}

\* The last write of history w to key k that the store took, 0 if none.
LastStored(w, k) ==
    LET S == {n \in WritesTo(w, k) : w[n].stored}
    IN  IF S = {} THEN 0 ELSE CHOOSE n \in S : \A o \in S : o <= n

\* No other asset_indexer invocation works on the source object of i.
OwnFile(i) ==
    \A k \in IngestIds :
        (k # i /\ ai[k].pc # "idle") => ai[k].src_file_name # ai[i].src_file_name

ItemFields(doc_data) == DOMAIN doc_data.item.function_data

\* C19: per-key read-your-writes.  The record firestore_upsert reads back
\* after its write exists, carries the id it wrote to, and contains every
\* field of the status item that the write set; the value of each is the one
\* this call wrote, unless another call wrote that field of the same record
\* between the write and the read-back.
ReadYourWrites ==
    \A c \in CallerIds :
        (upserts[c].pc = "raised" /\ upserts[c].exc = sleep)
        => /\ upserts[c].read # {}
           /\ \A rec \in upserts[c].read :
                  /\ rec.brd_workflow_id = upserts[c].doc_data.brd_workflow_id
                  /\ ItemFields(upserts[c].doc_data) \subseteq ItemFields(rec)
                  /\ \A f \in ItemFields(upserts[c].doc_data) :
                         \/ rec.item.function_data[f] = upserts[c].doc_data.item.function_data[f]
                         \/ \E other \in upserts[c].between :
                                /\ f \in ItemFields(other)
                                /\ rec.item.function_data[f] = other.item.function_data[f]

\* A call has read back its write while the other caller wrote to the same
\* record between the write and the read-back, and one of the fields it set
\* holds the other call's value.
ReadYourWritesWitness ==
    \E c, o \in CallerIds :
        /\ c # o
        /\ upserts[c].pc = "raised" /\ upserts[c].exc = sleep
        /\ upserts[c].read # upserts[c].before
        /\ ItemFields(upserts[c].doc_data) # {}
        /\ upserts[o].pc = "written" /\ upserts[o].id = upserts[c].id
        /\ upserts[o].doc_data \in upserts[c].between
        /\ \E rec \in upserts[c].read, f \in ItemFields(upserts[c].doc_data) :
               rec.item.function_data[f] # upserts[c].doc_data.item.function_data[f]

\* Invocation x was killed after its IN_PROGRESS write.
Killed(x) == IF x[1] = "ai" THEN ai[x[2]].pc = "killed" ELSE cp[x[2]].pc = "killed"

\* C20: a killed invocation leaves its record IN_PROGRESS.  The record a
\* killed invocation alone wrote to is IN_PROGRESS, and that of a killed
\* asset_indexer invocation always is; the record of a killed invocation
\* leaves IN_PROGRESS only in a step in which another invocation writes to
\* that record.
KilledStaysInProgress ==
    /\ [](\A x \in Invocations :
              Killed(x)
              => LET k == History(x)[1].id
                 IN  /\ k \in DOMAIN store
                     /\ Writers(k) = {x} => RecordStatus(k) = IN_PROGRESS
                     /\ x[1] = "ai" => RecordStatus(k) = IN_PROGRESS)
    /\ [][\A x \in Invocations :
             (Killed(x) /\ RecordStatus(History(x)[1].id) = IN_PROGRESS
                  /\ store'[History(x)[1].id] # store[History(x)[1].id])
             => \E y \in Invocations \ {x} :
                    /\ Len(History(y)') = Len(History(y)) + 1
                    /\ History(y)'[Len(History(y)')].id = History(x)[1].id]_vars

\* A killed asset_indexer invocation whose record is IN_PROGRESS with its
\* copy made, next to a killed content_processor invocation whose record a
\* second delivery of the same message has since brought to FAILED.
KilledStaysInProgressWitness ==
    /\ \E i \in IngestIds :
           /\ ai[i].pc = "killed" /\ "copy" \in Effects(i)
           /\ RecordStatus(ai[i].brd_id) = IN_PROGRESS
    /\ \E j1, j2 \in ExtractIds :
           /\ j1 # j2
           /\ cp[j1].pc = "killed" /\ ExtractEnded(j2)
           /\ cp[j2].message = cp[j1].message
           /\ cp[j1].document_id # None
           /\ RecordStatus(cp[j1].document_id) = FAILED

\* The asset_indexer invocations started for source object name.
IngestsOf(name) == {k \in IngestIds : ai[k].pc # "idle" /\ ai[k].src_file_name = name}

\* C21 as the specification states it: a failure does not block a retry.
\* When every asset_indexer invocation for a file-arrival event has ended and
\* all of them ended FAILED, the source object the event names is still there
\* for a re-invocation with the same event to copy.
FailureLeavesRetryOpen ==
    \A name \in Files :
        (IngestsOf(name) # {} /\ \A k \in IngestsOf(name) : ai[k].pc = "raised")
        => name \in src_bucket

\* Each status is written at most once in history w.
WrittenOnce(w) == \A a, b \in 1..Len(w) : w[a].status = w[b].status => a = b

\* C22: no local retry.  Within one invocation each status is written at most
\* once, whether the store took the write or not, and in the order
\* IN_PROGRESS, COMPLETED, FAILED; an asset_indexer invocation copies,
\* deletes and publishes at most once each, and one that has written FAILED
\* or ended by raising has published nothing.
NoLocalRetry ==
    /\ \A x \in Invocations :
           /\ WrittenOnce(History(x))
           /\ Len(History(x)) >= 1 => History(x)[1].status = IN_PROGRESS
           /\ \A n \in 1..Len(History(x)) :
                  History(x)[n].status = FAILED => n = Len(History(x))
    /\ \A i \in IngestIds :
           /\ \A a, b \in 1..Len(ai[i].effects) :
                  ai[i].effects[a] = ai[i].effects[b] => a = b
           /\ (FAILED \in Statuses(ai[i].written) \/ ai[i].pc \in {"handler", "raised"})
                  => /\ "publish" \notin Effects(i)
                     /\ StageMessage(ai[i].brd_id, ai[i].brd_id) \notin topic

\* An asset_indexer invocation ended by raising after the store refused its
\* COMPLETED write and then its FAILED write, each tried once, with nothing
\* published; a content_processor invocation ended with its two writes.
NoLocalRetryWitness ==
    /\ \E i \in IngestIds :
           /\ ai[i].pc = "raised" /\ Len(ai[i].written) = 3
           /\ ~ai[i].written[2].stored /\ ~ai[i].written[3].stored
           /\ ai[i].effects = <<"copy", "delete">>
    /\ \E j \in ExtractIds :
           ExtractEnded(j) /\ Len(cp[j].written) = 2 /\ ~cp[j].written[2].stored

\* PubSubMessage(brd_workflow_id, document_id) as content_processor
\* constructs it at lines 142, 166 and 180 from the identifiers it parsed.
PubSubMessage(brd_workflow_id, document_id) ==
    [brd_workflow_id |-> brd_workflow_id, document_id |-> document_id,
     data |-> None, processing_complete |-> FALSE]

\* PubSubMessage.to_dict of content_processor's package: both identifiers
\* as they are, and data only if there is any.
to_dict(message) ==
    LET d == [type |-> "dict", brd_workflow_id |-> message.brd_workflow_id,
              document_id |-> message.document_id,
              processing_complete |-> message.processing_complete]
    IN  IF message.data # None
        THEN [k \in DOMAIN d \cup {"data"} |-> IF k = "data" THEN message.data ELSE d[k]]
        ELSE d

\* The dict has both identifiers, each with a value.
HasBothIdentifiers(d) ==
    /\ "brd_workflow_id" \in DOMAIN d /\ d.brd_workflow_id # None
    /\ "document_id" \in DOMAIN d /\ d.document_id # None

\* C23 as the specification states it: every stage message has both
\* identifiers.  What asset_indexer published has both, and to_dict of the
\* message a content_processor invocation constructed has both, each with a
\* value.
BothIdentifiersPresent ==
    /\ \A m \in topic \cap IngestMessages : HasBothIdentifiers(MessageDict(m))
    /\ \A j \in ExtractIds :
           cp[j].pc # "idle"
           => HasBothIdentifiers(to_dict(PubSubMessage(cp[j].brd_workflow_id, cp[j].document_id)))

\* The publish of invocation i failed: its COMPLETED write was stored, so it
\* reached line 164, and it is in the handler of line 172 or has left it.
PublishFailed(i) ==
    /\ ai[i].pc \in {"handler", "raised"}
    /\ Len(ai[i].written) >= 2
    /\ ai[i].written[2].status = COMPLETED
    /\ ai[i].written[2].stored

\* The record of invocation i is the failed document of a publish error.
RecordsPublishError(i) ==
    /\ ai[i].brd_id \in DOMAIN store
    /\ store[ai[i].brd_id].item.function_data.status = FAILED
    /\ store[ai[i].brd_id].description = <<"Failed to process BRD document", PublishError>>
    /\ store[ai[i].brd_id].item.function_data.description
           = <<"Failed to process BRD document", PublishError>>
    /\ store[ai[i].brd_id].item.function_data.error = PublishError

\* C24 as the specification states it: when the publish of asset_indexer
\* fails, the record of that workflow ends as FAILED with the publish error
\* in its description, the exception leaves asset_indexer, and the workflow
\* has no completion message.
PublishFailureEndsFailed ==
    \A i \in IngestIds :
        (PublishFailed(i) /\ ai[i].pc = "raised")
        => /\ RecordsPublishError(i)
           /\ \A m \in topic : m.brd_workflow_id # ai[i].brd_id

\* C24: a failed publish is re-raised into the handler of line 172 with the
\* publish error, nothing is on the topic for that workflow, the handler
\* issues one FAILED write for the record of the drawn id and the invocation
\* ends by raising.  When the store takes that write the record is FAILED
\* with the publish error in its description and error field; when the
\* store refuses it the record keeps the COMPLETED of line 158.
PublishFailureHandled ==
    \A i \in IngestIds :
        PublishFailed(i)
        => /\ ai[i].effects = <<"copy", "delete">>
           /\ \A m \in topic : m.brd_workflow_id # ai[i].brd_id
           /\ ai[i].pc = "handler"
                => /\ ai[i].exc = PublishError
                   /\ Len(ai[i].written) = 2
           /\ ai[i].pc = "raised"
                => /\ Len(ai[i].written) = 3
                   /\ ai[i].written[3].id = ai[i].brd_id
                   /\ ai[i].written[3].status = FAILED
                   /\ ai[i].written[3].stored => RecordsPublishError(i)
                   /\ ~ai[i].written[3].stored
                        => store[ai[i].brd_id].item.function_data.status = COMPLETED

PublishFailureHandledWitness ==
    \E i \in IngestIds :
        /\ PublishFailed(i)
        /\ ai[i].pc = "raised"
        /\ ai[i].written[3].stored
        /\ RecordsPublishError(i)
        /\ ai[i].src_file_name \notin src_bucket

\* The invocation has ended: it returned or an exception left it.
Finished(x) == x.pc \in {"returned", "raised"}

\* The store took every status write of the invocation.
AllAcknowledged(x) == \A n \in 1..Len(x.written) : x.written[n].stored

\* The status of the record the invocation wrote last, in store st.
LastRecordStatus(st, x) == st[x.written[Len(x.written)].id].item.function_data.status

\* The record is COMPLETED exactly when the message went out, FAILED exactly
\* when none did.
StatusMatches(status, published) ==
    /\ status = COMPLETED <=> published
    /\ status = FAILED <=> ~published

\* C25: record and message agree at the end of an invocation.  In the step
\* that ends an invocation all of whose status writes the store took, the
\* record it wrote is COMPLETED exactly when the invocation published its
\* message and FAILED exactly when it published none.  asset_indexer's
\* message is on the topic exactly when it published; content_processor
\* publishes in no run.
RecordMatchesMessage ==
    [][ /\ \A i \in IngestIds :
              (~Finished(ai[i]) /\ Finished(ai'[i]) /\ AllAcknowledged(ai'[i]))
              => /\ Len(ai'[i].written) >= 2
                 /\ StatusMatches(LastRecordStatus(store', ai'[i]),
                                   StageMessage(ai'[i].brd_id, ai'[i].brd_id) \in topic')
                 /\ StageMessage(ai'[i].brd_id, ai'[i].brd_id) \in topic'
                        <=> ai'[i].effects = <<"copy", "delete", "publish">>
                 /\ ai'[i].pc = "returned" <=> LastRecordStatus(store', ai'[i]) = COMPLETED
        /\ \A j \in ExtractIds :
              (~Finished(cp[j]) /\ Finished(cp'[j]) /\ AllAcknowledged(cp'[j]))
              => /\ Len(cp'[j].written) = 2
                 /\ StatusMatches(LastRecordStatus(store', cp'[j]), FALSE)
                 /\ topic' = topic
                 /\ cp'[j].pc = "raised" ]_vars

RecordMatchesMessageWitness ==
    /\ \E i \in IngestIds :
           /\ ai[i].pc = "returned"
           /\ AllAcknowledged(ai[i])
           /\ LastRecordStatus(store, ai[i]) = COMPLETED
           /\ StageMessage(ai[i].brd_id, ai[i].brd_id) \in topic
    /\ \E i \in IngestIds :
           /\ ai[i].pc = "raised"
           /\ AllAcknowledged(ai[i])
           /\ Len(ai[i].written) = 2
           /\ LastRecordStatus(store, ai[i]) = FAILED
           /\ StageMessage(ai[i].brd_id, ai[i].brd_id) \notin topic
    /\ \E j \in ExtractIds :
           /\ cp[j].pc = "raised"
           /\ AllAcknowledged(cp[j])
           /\ LastRecordStatus(store, cp[j]) = FAILED

\* The objects dropped into the source bucket.
DroppedFiles == {FileSeq[n] : n \in 1..NumDropped}

\* The bytes of the object dropped as name are in one of the two buckets.
ContentKept(name) ==
    \/ name \in src_bucket
    \/ \E o \in dest_bucket : o.content = Content(name)

\* C26: no document loss in asset_indexer.  The source object is deleted only
\* by an invocation that has written its bytes to the destination bucket
\* before, and in every state, also after a failure or a kill between two
\* steps, the bytes of every dropped object are in the source bucket or in
\* the destination bucket.
NoDocumentLoss ==
    /\ \A name \in DroppedFiles : ContentKept(name)
    /\ \A i \in IngestIds :
           (ai[i].pc = "delete" \/ (Len(ai[i].effects) >= 2 /\ ai[i].effects[2] = "delete"))
           => /\ Len(ai[i].effects) >= 1
              /\ ai[i].effects[1] = "copy"
              /\ DestBlob(i) \in dest_bucket
    /\ \A name \in DroppedFiles :
           name \notin src_bucket
           => \E i \in IngestIds :
                  /\ ai[i].src_file_name = name
                  /\ Len(ai[i].effects) >= 2
                  /\ ai[i].effects[2] = "delete"

NoDocumentLossWitness ==
    /\ \E i \in IngestIds :
           /\ ai[i].pc = "killed"
           /\ ai[i].effects = <<"copy", "delete">>
           /\ ai[i].src_file_name \notin src_bucket
           /\ DestBlob(i) \in dest_bucket
    /\ \E i \in IngestIds :
           /\ ai[i].pc = "raised"
           /\ ai[i].effects = <<"copy">>

\* The step is the handler of the asset_indexer invocation that drew k: the
\* invocation that wrote the record is the one writing it again.
OwnHandlerStep(k) ==
    \E i \in IngestIds :
        /\ ai[i].brd_id = k
        /\ ai[i].pc = "handler"
        /\ ai'[i].pc = "raised"

\* C27 as the specification states it: across invocations a COMPLETED record
\* is never set back.  No write of another invocation (a duplicate or
\* overlapping delivery for the same id) changes a record whose status is
\* COMPLETED to IN_PROGRESS or FAILED.
CompletedNeverSetBack ==
    [][\A k \in DOMAIN store :
           (RecordStatus(k) = COMPLETED /\ ~OwnHandlerStep(k))
           => store'[k].item.function_data.status = COMPLETED]_vars

\* C28 as the specification states it: the created timestamp of a status
\* record is fixed by the first upsert for its key.  No later upsert to the
\* same key changes timestamp_created; only timestamp_updated advances.
CreatedTimestampFixed ==
    [][\A k \in DOMAIN store :
           store'[k].item.function_data.timestamp_created
               = store[k].item.function_data.timestamp_created]_vars

LastIssued(x) == x.written[Len(x.written)].status

\* One of the status writes of the invocation was refused by the store.
WriteFailed(x) == \E n \in 1..Len(x.written) : ~x.written[n].stored

\* The statuses the store took from the invocation, in order.
Taken(x) == SelectSeq(x.written, LAMBDA w : w.stored)

\* What C30 says of an invocation that has ended.
EndsRecorded(x) ==
    Finished(x)
    => /\ Len(x.written) >= 1
       /\ x.pc = "returned" => (LastIssued(x) = COMPLETED /\ ~WriteFailed(x))
       /\ x.pc = "raised" => LastIssued(x) \in {FAILED, IN_PROGRESS}
       /\ LastIssued(x) = IN_PROGRESS => (x.pc = "raised" /\ WriteFailed(x))
       /\ (Taken(x) # <<>> /\ Taken(x)[Len(Taken(x))].status = IN_PROGRESS)
            => WriteFailed(x)

\* C30: every stage invocation that is not killed terminates, and when it
\* has terminated the last status it wrote is COMPLETED if it returned and
\* FAILED if an exception left it; the last status is IN_PROGRESS only in
\* runs in which a status write itself failed.
InvocationsTerminate ==
    /\ [](\A i \in IngestIds : EndsRecorded(ai[i]))
    /\ [](\A j \in ExtractIds : EndsRecorded(cp[j]))
    /\ \A i \in IngestIds :
           (ai[i].pc # "idle") ~> (ai[i].pc \in {"returned", "raised", "killed"})
    /\ \A j \in ExtractIds :
           (cp[j].pc # "idle") ~> (cp[j].pc \in {"returned", "raised", "killed"})

InvocationsTerminateWitness ==
    /\ \E i \in IngestIds : ai[i].pc = "returned" /\ LastIssued(ai[i]) = COMPLETED
    /\ \E i \in IngestIds :
           /\ ai[i].pc = "raised"
           /\ LastIssued(ai[i]) = IN_PROGRESS
           /\ WriteFailed(ai[i])
    /\ \E j \in ExtractIds : cp[j].pc = "raised" /\ LastIssued(cp[j]) = FAILED

\* C31 as the specification states it: a content_processor invocation in
\* test mode (an identifier of the consumed message contains "test", or the
\* parse fell back) uses the built-in content and reads no bucket, so when
\* the store takes its writes it reaches COMPLETED and returns, whether or
\* not the backing object exists.
TestModeCompletes ==
    \A j \in ExtractIds :
        (Finished(cp[j]) /\ cp[j].is_test /\ AllAcknowledged(cp[j]))
        => /\ cp[j].pc = "returned"
           /\ LastIssued(cp[j]) = COMPLETED

\* The data part of the cloud event of m holds a payload that is a JSON object.
Parseable(m) == m.kind = "stage"

\* The cloud event of m has the data part from_cloud_event is called with.
HasEventData(m) == "data" \in DOMAIN CloudEvent(m)

\* C32 as the specification states it: from_cloud_event never raises, and
\* for an event that cannot be parsed (no message, no data, or data that is
\* not JSON) it returns the sentinel ids of its package.
FromCloudEventNeverRaises ==
    \A j \in ExtractIds :
        (cp[j].pc # "idle" /\ HasEventData(cp[j].message))
        => LET event_data == CloudEvent(cp[j].message).data
               c == from_cloud_event(event_data)
               a == asset_indexer_from_cloud_event(event_data)
           IN  /\ ~c.raised
               /\ ~a.raised
               /\ ~Parseable(cp[j].message)
                    => /\ c.brd_workflow_id = unknown_workflow_id
                       /\ c.document_id = unknown_document_id
                       /\ a.brd_workflow_id \in {"unknown", "error"}

\* C33 as the specification states it: from_dict(m.to_dict()) equals m on
\* brd_workflow_id, document_id, data and processing_complete, for every
\* message m of either package.
DictRoundTrip ==
    msg.pc = "parsed" => msg.result = msg.message

\* C33: from_dict(m.to_dict()) equals m on brd_workflow_id, data and
\* processing_complete for every message m, and on document_id for every m
\* of content_processor and every m of asset_indexer whose document_id is
\* None or not empty; asset_indexer's to_dict leaves out a document_id "",
\* which comes back as None.
DictRoundTripNonEmptyId ==
    msg.pc = "parsed"
    => /\ msg.result.brd_workflow_id = msg.message.brd_workflow_id
       /\ msg.result.data = msg.message.data
       /\ msg.result.processing_complete = msg.message.processing_complete
       /\ (msg.package = "content_processor" \/ msg.message.document_id # "")
            => msg.result.document_id = msg.message.document_id
       /\ (msg.package = "asset_indexer" /\ msg.message.document_id = "")
            => msg.result.document_id = None

DictRoundTripNonEmptyIdWitness ==
    /\ msg.pc = "parsed"
    /\ msg.package = "content_processor"
    /\ msg.message.document_id = None
    /\ msg.message.data = SomeData
    /\ ~msg.message.processing_complete
    /\ "data" \in DOMAIN msg.dict
    /\ msg.result = msg.message

\* C34 as the specification states it: whenever the store's write and
\* read-back succeed, firestore_upsert returns the id of the record it
\* wrote (no exception leaves it): document.id when auto_id is false, the
\* generated id, also stored in the id field, when auto_id is true.
UpsertReturnsId ==
    (last_upsert.called /\ last_upsert.fault = "none")
    => /\ last_upsert.exc = None
       /\ last_upsert.id \in DOMAIN store
       /\ (~last_upsert.auto_id /\ last_upsert.document.id # None)
            => last_upsert.id = last_upsert.document.id
       /\ last_upsert.auto_id => store[last_upsert.id].id = last_upsert.id

\* C35 as the specification states it: emulator hosts are injected only
\* outside GCP.  If running_in_gcp() is true when the module initialises,
\* then after initialisation neither emulator host is set and the status
\* records report "production"; an emulator host that was set keeps its
\* value.
EmulatorOnlyOutsideGcp ==
    environ.pc \in {"initialised", "invoked"}
    => /\ running_in_gcp(environ.initial)
            => /\ \A h \in EmulatorHosts :
                      /\ environ.environ[h] = environ.initial[h]
                      /\ ~Truthy(environ.environ, h)
               /\ environ.pc = "invoked" => environ.environment = "production"
       /\ \A h \in EmulatorHosts :
              environ.initial[h] # Unset => environ.environ[h] = environ.initial[h]

====
